---- MODULE Spec2Model ----
(***************************************************************************)
(* Usage-telemetry sinks of CLIProxyAPI:                                   *)
(*   internal/usage/database_plugin.go  (durable aggregation store)        *)
(*   internal/usage/otlp_plugin.go      (remote telemetry exporter)        *)
(*                                                                         *)
(* Spec     : store lifecycle - ConfigureDatabase, HandleUsage, enqueue,   *)
(*            run / drainRemaining, retentionLoop, close, as interleaved   *)
(*            goroutines over the two atomic pointers.                     *)
(***************************************************************************)
EXTENDS Integers, Sequences, FiniteSets, TLC

(* ---------------------------------------------------------------- bounds *)
\* store instances newUsageStore may create in one behaviour
MaxStores == 2
\* usage records the producers may dispatch in one behaviour
MaxRecords == 2
\* capacity of usageStore.queue (2048 in the source, database_plugin.go:220)
QueueCap == 1

\* goroutines calling ConfigureDatabase / databasePlugin.HandleUsage
Configurers == {"c1", "c2"}
Producers == {"p1"}

StoreIds == 1..MaxStores
RecIds == 1..MaxRecords

(* ------------------------------------------------------- DatabaseOptions *)
\* A path is the sequence of its components; "" is <<>>.
DefaultRetentionDays == 14

DatabaseOptions(e, p, r) == [Enabled |-> e, Path |-> p, RetentionDays |-> r]

\* The options ConfigureDatabase is called with: the zero value (as the test's
\* deferred ConfigureDatabase(DatabaseOptions{})), one path spelled two ways
\* with the retention unset or given, and enabled with no path.
OptionInputs ==
    { DatabaseOptions(FALSE, <<>>, 0),
      DatabaseOptions(TRUE, <<"a">>, 0),
      DatabaseOptions(TRUE, <<".", "a">>, 14),
      DatabaseOptions(TRUE, <<"a">>, 3),
      DatabaseOptions(TRUE, <<>>, 3) }

\* filepath.Clean on a relative path: "." components are dropped, "x/.." is
\* resolved, and an empty result is ".".
RECURSIVE CleanInto(_, _)
CleanInto(acc, rest) ==
    IF rest = <<>> THEN acc
    ELSE LET h == Head(rest) IN
         IF h = "." THEN CleanInto(acc, Tail(rest))
         ELSE IF h = ".." /\ Len(acc) > 0 /\ acc[Len(acc)] # ".."
              THEN CleanInto(SubSeq(acc, 1, Len(acc) - 1), Tail(rest))
              ELSE CleanInto(Append(acc, h), Tail(rest))

Clean(p) ==
    LET c == CleanInto(<<>>, p) IN IF c = <<>> THEN <<".">> ELSE c

normalizeDatabaseOptions(opts) ==
    LET r == IF opts.RetentionDays <= 0 THEN DefaultRetentionDays ELSE opts.RetentionDays
        p == IF opts.Path # <<>> THEN Clean(opts.Path) ELSE opts.Path
    IN  DatabaseOptions(opts.Enabled, p, r)

\* The retention comparison negated.
configsEqual_RetentionNegated(a, b) ==
    IF a = <<>> \/ b = <<>> THEN FALSE
    ELSE /\ a[1].Enabled = b[1].Enabled
         /\ a[1].Path = b[1].Path
         /\ a[1].RetentionDays # b[1].RetentionDays

\* A *DatabaseOptions is <<>> (nil) or <<opts>>.
configsEqual(a, b) ==
    IF a = <<>> \/ b = <<>> THEN FALSE
    ELSE /\ a[1].Enabled = b[1].Enabled
         /\ a[1].Path = b[1].Path
         /\ a[1].RetentionDays = b[1].RetentionDays

(* ------------------------------------------------- records and identities *)
\* insert calls in one behaviour
MaxInserts == 2
\* the clock runs from 1 to MaxNow ticks
MaxNow == 2
\* ticks per UTC calendar day: Format("2006-01-02") of a timestamp is its day
TicksPerDay == 2
StatusTooManyRequests == 429

\* sha256.Sum256 and hex.EncodeToString: an injective image of the value that
\* is never the value itself nor the empty string.
sha256hex(value) == "sha256:" \o value

\* The value is stored as it is.
fingerprint_Identity(value) == value

fingerprint(value) == IF value = "" THEN "" ELSE sha256hex(value)

credentialLabel(record) ==
    IF record.AuthID # "" THEN record.AuthID
    ELSE IF record.Source # "" THEN record.Source
    ELSE IF record.Provider # "" THEN record.Provider
    ELSE IF record.APIKey # "" THEN "api-key"
    ELSE "unknown"

credentialFingerprint(record) ==
    IF record.AuthID # "" THEN fingerprint(record.AuthID)
    ELSE IF record.Source # "" THEN fingerprint(record.Source)
    ELSE IF record.APIKey # "" THEN fingerprint(record.APIKey)
    ELSE IF record.Provider # "" THEN fingerprint(record.Provider)
    ELSE fingerprint("unknown")

\* The request context is <<>> (nil, or no gin context in it) or <<status>>,
\* the status the gin response writer reports.
resolveStatusCode(ctx) == IF ctx = <<>> THEN 0 ELSE ctx[1]

\* coreusage.Record; RequestedAt 0 is the zero time.
Record(provider, model, authID, source, apiKey, failed, requestedAt) ==
    [Provider |-> provider, Model |-> model, AuthID |-> authID, AuthIndex |-> 7,
     Source |-> source, APIKey |-> apiKey, Failed |-> failed, RequestedAt |-> requestedAt]

RecordInputs ==
    { Record("qwen", "qwen3-coder", "auth-A", "source-A", "", FALSE, 1),
      Record("qwen", "qwen3-coder", "auth-A", "", "", TRUE, 0),
      Record("qwen", "claude-3", "", "", "key", FALSE, 3) }

CtxInputs == { <<>>, <<429>>, <<500>> }

TokenStats(i, o, r, c, total) ==
    [InputTokens |-> i, OutputTokens |-> o, ReasoningTokens |-> r, CachedTokens |-> c,
     TotalTokens |-> total]

\* The token counts normaliseDetail(record.Detail) hands to HandleUsage (line
\* 95): any of these may reach the dbRecord.
TokenInputs == { TokenStats(0, 0, 0, 0, 0), TokenStats(10, 15, 0, 0, 25) }

\* HandleUsage lines 95-119: the dbRecord built from a record.
dbRecord(ctx, record, tokens, tnow) ==
    LET timestamp == IF record.RequestedAt = 0 THEN tnow ELSE record.RequestedAt
        status == resolveStatusCode(ctx)
        rateLimited == (status = StatusTooManyRequests)
        apiKeyHash == fingerprint(record.APIKey)
    IN  [Timestamp |-> timestamp,
         Provider |-> record.Provider,
         Model |-> record.Model,
         CredentialLabel |-> credentialLabel(record),
         CredentialFingerprint |-> credentialFingerprint(record),
         APIKeyHash |-> apiKeyHash,
         AuthID |-> record.AuthID,
         AuthIndex |-> record.AuthIndex,
         Source |-> record.Source,
         StatusCode |-> status,
         Failed |-> record.Failed,
         RateLimited |-> rateLimited,
         Tokens |-> tokens]

boolToInt(v) == IF v THEN 1 ELSE 0

\* rec.Timestamp.Format("2006-01-02")
Day(timestamp) == timestamp \div TicksPerDay

\* The row INSERT INTO usage_requests appends (the id is the row's position).
RequestRow(rec) ==
    [timestamp |-> rec.Timestamp, provider |-> rec.Provider, model |-> rec.Model,
     credential_label |-> rec.CredentialLabel,
     credential_fingerprint |-> rec.CredentialFingerprint,
     api_key_hash |-> rec.APIKeyHash, auth_id |-> rec.AuthID,
     auth_index |-> rec.AuthIndex, source |-> rec.Source,
     status_code |-> rec.StatusCode, failed |-> boolToInt(rec.Failed),
     rate_limited |-> boolToInt(rec.RateLimited),
     prompt_tokens |-> rec.Tokens.InputTokens,
     completion_tokens |-> rec.Tokens.OutputTokens,
     reasoning_tokens |-> rec.Tokens.ReasoningTokens,
     cached_tokens |-> rec.Tokens.CachedTokens,
     total_tokens |-> rec.Tokens.TotalTokens]

\* The row the usage_daily statement proposes (its VALUES list).
DailyRow(rec) ==
    [day |-> Day(rec.Timestamp), provider |-> rec.Provider,
     credential_fingerprint |-> rec.CredentialFingerprint,
     credential_label |-> rec.CredentialLabel, model |-> rec.Model,
     total_requests |-> 1, failed_requests |-> boolToInt(rec.Failed),
     rate_limited |-> boolToInt(rec.RateLimited),
     prompt_tokens |-> rec.Tokens.InputTokens,
     completion_tokens |-> rec.Tokens.OutputTokens,
     total_tokens |-> rec.Tokens.TotalTokens]

\* PRIMARY KEY (day, provider, credential_fingerprint, model)
DailyKey(row) == <<row.day, row.provider, row.credential_fingerprint, row.model>>

\* ON CONFLICT ... DO UPDATE SET: the existing row merged with the excluded one.
Merge(old, excluded) ==
    [old EXCEPT
        !.total_requests = old.total_requests + excluded.total_requests,
        !.failed_requests = old.failed_requests + excluded.failed_requests,
        !.rate_limited = old.rate_limited + excluded.rate_limited,
        !.prompt_tokens = old.prompt_tokens + excluded.prompt_tokens,
        !.completion_tokens = old.completion_tokens + excluded.completion_tokens,
        !.total_tokens = old.total_tokens + excluded.total_tokens,
        !.credential_label = IF excluded.credential_label # ""
                             THEN excluded.credential_label ELSE old.credential_label]

\* The conflicting row is replaced by the excluded one instead of merged.
Upsert_Overwrite(table, row) ==
    IF \E i \in DOMAIN table : DailyKey(table[i]) = DailyKey(row)
    THEN [i \in DOMAIN table |->
             IF DailyKey(table[i]) = DailyKey(row) THEN row ELSE table[i]]
    ELSE Append(table, row)

\* INSERT INTO usage_daily ... ON CONFLICT(day, provider,
\* credential_fingerprint, model) DO UPDATE SET ...
Upsert(table, row) ==
    IF \E i \in DOMAIN table : DailyKey(table[i]) = DailyKey(row)
    THEN [i \in DOMAIN table |->
             IF DailyKey(table[i]) = DailyKey(row) THEN Merge(table[i], row) ELSE table[i]]
    ELSE Append(table, row)

(* -------------------------------------------------------------- exporter *)
\* records dispatched to the exporter in one behaviour
MaxDispatch == 2
\* goroutines calling OTLPPlugin.HandleUsage
Handlers == {"h1", "h2"}

\* goroutines calling SetEnabled, IsEnabled, SetEndpoint and GetEndpoint
Callers == {"g1", "g2"}

\* An endpoint is the sequence of its characters.
DefaultEndpoint == <<"d">>
EndpointInputs == { <<"u">>, <<" ", "u", " ">>, <<"v", " ">>, <<" ">> }
\* values of the environment variable DY_NOTI_OTEL_ENDPOINT; <<>> is unset
EnvInputs == { <<>>, <<"e">>, <<" ", "e">> }

\* strings.TrimSpace
RECURSIVE TrimLeft(_)
TrimLeft(s) == IF s # <<>> /\ Head(s) = " " THEN TrimLeft(Tail(s)) ELSE s
RECURSIVE TrimRight(_)
TrimRight(s) ==
    IF s # <<>> /\ s[Len(s)] = " " THEN TrimRight(SubSeq(s, 1, Len(s) - 1)) ELSE s
TrimSpace(s) == TrimRight(TrimLeft(s))

(* ----------------------------------------------------------------- state *)
VARIABLES
    currentUsageStore,  \* atomic.Pointer[usageStore]: 0 is nil, else a store id
    currentDBConfig,    \* atomic.Pointer[DatabaseOptions]: <<>> is nil
    nStores,            \* store instances created so far
    sOpts,              \* the options each store was opened from
    queue,              \* usageStore.queue (buffered channel), per store
    stopped,            \* usageStore.stop is closed, per store
    runPc,              \* position of goroutine run(), per store
    runRec,             \* the record run() holds between receive and insert
    retPc,              \* position of goroutine retentionLoop(), per store
    dbOpen,             \* usageStore.db is open, per store
    insertLog,          \* records passed to insert, in order, per store
    acceptLog,          \* records sent into s.queue, in order, per store
    persisted,          \* records whose insert returned nil
    finalPasses,        \* applyRetention calls of the stop case, per store
    cPc,                \* position of each ConfigureDatabase caller
    cOpts,              \* its argument opts
    cNorm,              \* its local normalized
    cStore,             \* its local store / old / prevStore
    cRet,               \* what its last call returned
    pPc,                \* position of each HandleUsage caller
    pStore,             \* its local store
    pRec,               \* the record it carries
    nRecs,              \* records dispatched so far
    recRes,             \* per record: what enqueue returned
    recStore,           \* per record: the store enqueue was called on
    okBeforeClose,      \* records whose enqueue returned nil before close(s.stop)
    now,                \* the clock (time.Now), in ticks
    usage_requests,     \* the committed fact table, in insertion order
    usage_daily,        \* the committed aggregate table
    insPc,              \* position of the insert call of the insert worker
    insRec,             \* its argument rec
    txRequests,         \* fact rows written in the open transaction
    txDaily,            \* the aggregate table as the open transaction sees it
    insRet,             \* what the last insert call returned
    okLog,              \* the records whose insert returned nil, in order
    nIns,               \* insert calls so far
    retCutoff,          \* applyRetention's local cutoff, per store
    oEnabled,           \* OTLPPlugin.enabled
    oEndpoint,          \* OTLPPlugin.endpoint
    oBatch,             \* OTLPPlugin.batch
    oStopClosed,        \* OTLPPlugin.stopChan is closed
    oTickerOn,          \* OTLPPlugin.flushTicker is running
    oFlushPc,           \* position of goroutine periodicFlush()
    oClosePc,           \* position of the Close() call
    hPc,                \* position of each OTLPPlugin.HandleUsage caller
    hRec,               \* the record it carries
    oSends,             \* the HTTP requests made: who sent which record where
    nDisp,              \* records dispatched to the exporter so far
    oRefused,           \* records whose HandleUsage found the exporter disabled
    oLastSet,           \* <<argument>> of the last SetEndpoint call, <<>> if none
    enabledMu,          \* OTLPPlugin.enabledMu: who holds it for writing, for reading
    gPc,                \* position of each caller of the exporter's setters and getters
    gArg,               \* the argument of the setter call it is in
    idA,                \* a record handed to HandleUsage
    idB,                \* a second record, told apart from the first by its key only
    idRows              \* the rows persisted for idA and for idB, <<>> before

ptrVars == <<currentUsageStore, currentDBConfig>>
storeVars == <<nStores, sOpts, queue, stopped, runPc, runRec, retPc, dbOpen, insertLog>>
confVars == <<cPc, cOpts, cNorm, cStore, cRet>>
prodVars == <<pPc, pStore, pRec, nRecs, recRes, recStore, okBeforeClose>>
histVars == <<acceptLog, persisted, finalPasses>>
lifeVars == <<ptrVars, storeVars, confVars, prodVars, histVars>>
dbVars == <<now, usage_requests, usage_daily, insPc, insRec, txRequests, txDaily, insRet,
            okLog, nIns>>
oHist == <<oRefused, oLastSet>>
muVars == <<enabledMu, gPc, gArg>>
otlpVars == <<oEnabled, oEndpoint, oBatch, oStopClosed, oTickerOn, oFlushPc, oClosePc,
              hPc, hRec, oSends, nDisp, oHist, muVars>>
idVars == <<idA, idB, idRows>>
otherVars == <<dbVars, otlpVars, retCutoff, idVars>>
vars == <<lifeVars, dbVars, otlpVars, retCutoff, idVars>>

NoOpts == DatabaseOptions(FALSE, <<>>, 0)

\* NewOTLPPlugin: the endpoint is DY_NOTI_OTEL_ENDPOINT as it stands, or the
\* default when that is empty; enabled, an empty batch, the ticker and
\* periodicFlush() started.
NewOTLPPlugin(env) ==
    /\ oEnabled = TRUE
    /\ oEndpoint = IF env = <<>> THEN DefaultEndpoint ELSE env
    /\ oRefused = {}
    /\ oLastSet = <<>>
    /\ oBatch = <<>>
    /\ oStopClosed = FALSE
    /\ oTickerOn = TRUE
    /\ oFlushPc = "select"
    /\ oClosePc = "idle"
    /\ hRec = [h \in Handlers |-> 0]
    /\ oSends = <<>>
    /\ nDisp = 0
    /\ enabledMu = [writer |-> {}, readers |-> {}]
    /\ gPc = [g \in Callers |-> "idle"]
    /\ gArg = [g \in Callers |-> <<>>]

\* The exporter of a process started without DY_NOTI_OTEL_ENDPOINT.
InitOTLP == NewOTLPPlugin(<<>>)

\* No record is being persisted for its identity columns.
NoIdentity ==
    /\ idA = Record("", "", "", "", "", FALSE, 0)
    /\ idB = Record("", "", "", "", "", FALSE, 0)
    /\ idRows = <<>>

InitTables ==
    /\ now = 1
    /\ usage_requests = <<>>
    /\ usage_daily = <<>>
    /\ insPc = "idle"
    /\ insRec = <<>>
    /\ txRequests = <<>>
    /\ txDaily = <<>>
    /\ insRet = "nil"
    /\ okLog = <<>>
    /\ nIns = 0
    /\ retCutoff = [s \in StoreIds |-> 0]

InitStore ==
    /\ currentUsageStore = 0
    /\ currentDBConfig = <<>>
    /\ nStores = 0
    /\ sOpts = [s \in StoreIds |-> NoOpts]
    /\ queue = [s \in StoreIds |-> <<>>]
    /\ stopped = [s \in StoreIds |-> FALSE]
    /\ runPc = [s \in StoreIds |-> "none"]
    /\ runRec = [s \in StoreIds |-> 0]
    /\ retPc = [s \in StoreIds |-> "none"]
    /\ dbOpen = [s \in StoreIds |-> FALSE]
    /\ insertLog = [s \in StoreIds |-> <<>>]
    /\ acceptLog = [s \in StoreIds |-> <<>>]
    /\ persisted = {}
    /\ finalPasses = [s \in StoreIds |-> 0]
    /\ cOpts = [c \in Configurers |-> NoOpts]
    /\ cNorm = [c \in Configurers |-> NoOpts]
    /\ cStore = [c \in Configurers |-> 0]
    /\ cRet = [c \in Configurers |-> "nil"]
    /\ pStore = [p \in Producers |-> 0]
    /\ pRec = [p \in Producers |-> 0]
    /\ nRecs = 0
    /\ recRes = [r \in RecIds |-> "none"]
    /\ recStore = [r \in RecIds |-> 0]
    /\ okBeforeClose = {}

\* One goroutine reconfigures the store while records are dispatched.
Init ==
    /\ InitStore
    /\ InitTables
    /\ NoIdentity
    /\ InitOTLP
    /\ hPc = [h \in Handlers |-> "off"]
    /\ cPc = [c \in Configurers |-> IF c = "c1" THEN "idle" ELSE "off"]
    /\ pPc = [p \in Producers |-> "idle"]

\* Two goroutines call ConfigureDatabase concurrently; nothing is dispatched.
InitRace ==
    /\ InitStore
    /\ InitTables
    /\ NoIdentity
    /\ InitOTLP
    /\ hPc = [h \in Handlers |-> "off"]
    /\ cPc = [c \in Configurers |-> "idle"]
    /\ pPc = [p \in Producers |-> "off"]

(* ------------------------------------------------------------ usageStore *)
\* Producers parked in enqueue's select on store s (neither case ready).
Blocked(s) == { p \in Producers : pPc[p] = "blocked" /\ pStore[p] = s }

\* enqueue returns v to HandleUsage, which logs an error and returns.
EnqueueReturns(p, v) ==
    /\ pPc' = [pPc EXCEPT ![p] = "idle"]
    /\ pStore' = [pStore EXCEPT ![p] = 0]
    /\ pRec' = [pRec EXCEPT ![p] = 0]
    /\ recRes' = [recRes EXCEPT ![pRec[p]] = v]

\* A receive from s.queue.  With a sender parked on the full channel the Go
\* runtime hands the freed slot to that sender, whose send case completes.
Receive(s) ==
    IF Blocked(s) # {}
    THEN \E p \in Blocked(s) :
            /\ queue' = [queue EXCEPT ![s] = Append(Tail(@), pRec[p])]
            /\ acceptLog' = [acceptLog EXCEPT ![s] = Append(@, pRec[p])]
            /\ EnqueueReturns(p, "ok")
            /\ okBeforeClose' = okBeforeClose \cup {pRec[p]}
    ELSE /\ queue' = [queue EXCEPT ![s] = Tail(@)]
         /\ UNCHANGED <<pPc, pStore, pRec, recRes, okBeforeClose, acceptLog>>

\* run(): select { case rec := <-s.queue ; case <-s.stop }.
\* When both cases are ready the runtime picks either.
run_Receive(s) ==
    /\ runPc[s] = "select"
    /\ queue[s] # <<>>
    /\ runRec' = [runRec EXCEPT ![s] = Head(queue[s])]
    /\ runPc' = [runPc EXCEPT ![s] = "insert"]
    /\ Receive(s)
    /\ UNCHANGED <<ptrVars, confVars, nStores, sOpts, stopped, retPc, dbOpen, insertLog,
                   nRecs, recStore>>
    /\ UNCHANGED <<persisted, finalPasses>>
    /\ UNCHANGED otherVars

run_Stop(s) ==
    /\ runPc[s] = "select"
    /\ stopped[s]
    /\ runPc' = [runPc EXCEPT ![s] = "drain"]
    /\ UNCHANGED <<ptrVars, confVars, prodVars, nStores, sOpts, queue, stopped, runRec,
                   retPc, dbOpen, insertLog>>
    /\ UNCHANGED histVars
    /\ UNCHANGED otherVars

\* run() went back to its select without calling insert.
run_Insert_Skip(s) ==
    /\ runPc[s] = "insert"
    /\ runRec' = [runRec EXCEPT ![s] = 0]
    /\ runPc' = [runPc EXCEPT ![s] = "select"]
    /\ UNCHANGED <<ptrVars, confVars, prodVars, nStores, sOpts, queue, stopped,
                   retPc, dbOpen, insertLog>>
    /\ UNCHANGED histVars
    /\ UNCHANGED otherVars

\* s.insert(rec) returns nil, or an error that is logged: the record is
\* dropped.
run_Insert(s) ==
    /\ runPc[s] = "insert"
    /\ insertLog' = [insertLog EXCEPT ![s] = Append(@, runRec[s])]
    /\ \E err \in BOOLEAN :
          persisted' = IF err THEN persisted ELSE persisted \cup {runRec[s]}
    /\ runRec' = [runRec EXCEPT ![s] = 0]
    /\ runPc' = [runPc EXCEPT ![s] = "select"]
    /\ UNCHANGED <<ptrVars, confVars, prodVars, nStores, sOpts, queue, stopped,
                   retPc, dbOpen>>
    /\ UNCHANGED <<acceptLog, finalPasses>>
    /\ UNCHANGED otherVars

\* drainRemaining() returned without looking at the queue.
drainRemaining_Poll_NoDrain(s) ==
    /\ runPc[s] = "drain"
    /\ runPc' = [runPc EXCEPT ![s] = "done"]
    /\ UNCHANGED <<ptrVars, confVars, prodVars, nStores, sOpts, queue, stopped, runRec,
                   retPc, dbOpen, insertLog>>
    /\ UNCHANGED histVars
    /\ UNCHANGED otherVars

\* drainRemaining(): select { case rec := <-s.queue ; default: return },
\* then run() returns and its deferred wg.Done() runs.
drainRemaining_Poll(s) ==
    /\ runPc[s] = "drain"
    /\ IF queue[s] # <<>>
       THEN /\ runRec' = [runRec EXCEPT ![s] = Head(queue[s])]
            /\ runPc' = [runPc EXCEPT ![s] = "drainInsert"]
            /\ Receive(s)
       ELSE /\ runPc' = [runPc EXCEPT ![s] = "done"]
            /\ UNCHANGED <<runRec, queue, pPc, pStore, pRec, recRes, okBeforeClose,
                           acceptLog>>
    /\ UNCHANGED <<ptrVars, confVars, nStores, sOpts, stopped, retPc, dbOpen, insertLog,
                   nRecs, recStore>>
    /\ UNCHANGED <<persisted, finalPasses>>
    /\ UNCHANGED otherVars

\* The record drained is inserted ahead of the records inserted before it.
drainRemaining_Insert_First(s) ==
    /\ runPc[s] = "drainInsert"
    /\ insertLog' = [insertLog EXCEPT ![s] = <<runRec[s]>> \o @]
    /\ \E err \in BOOLEAN :
          persisted' = IF err THEN persisted ELSE persisted \cup {runRec[s]}
    /\ runRec' = [runRec EXCEPT ![s] = 0]
    /\ runPc' = [runPc EXCEPT ![s] = "drain"]
    /\ UNCHANGED <<ptrVars, confVars, prodVars, nStores, sOpts, queue, stopped,
                   retPc, dbOpen>>
    /\ UNCHANGED <<acceptLog, finalPasses>>
    /\ UNCHANGED otherVars

drainRemaining_Insert(s) ==
    /\ runPc[s] = "drainInsert"
    /\ insertLog' = [insertLog EXCEPT ![s] = Append(@, runRec[s])]
    /\ \E err \in BOOLEAN :
          persisted' = IF err THEN persisted ELSE persisted \cup {runRec[s]}
    /\ runRec' = [runRec EXCEPT ![s] = 0]
    /\ runPc' = [runPc EXCEPT ![s] = "drain"]
    /\ UNCHANGED <<ptrVars, confVars, prodVars, nStores, sOpts, queue, stopped,
                   retPc, dbOpen>>
    /\ UNCHANGED <<acceptLog, finalPasses>>
    /\ UNCHANGED otherVars

\* retentionLoop(): case <-ticker.C: s.applyRetention().  The pass works on
\* the tables only: nothing of the store's life cycle changes.
retentionLoop_Pass(s) ==
    /\ retPc[s] = "loop"
    /\ UNCHANGED vars

\* retentionLoop() returned on the stop signal without its last pass.
retentionLoop_Stop_NoPass(s) ==
    /\ retPc[s] = "loop"
    /\ stopped[s]
    /\ retPc' = [retPc EXCEPT ![s] = "done"]
    /\ UNCHANGED <<ptrVars, confVars, prodVars, nStores, sOpts, queue, stopped, runPc,
                   runRec, dbOpen, insertLog>>
    /\ UNCHANGED histVars
    /\ UNCHANGED otherVars

\* retentionLoop(): case <-s.stop: s.applyRetention(); return (wg.Done()).
retentionLoop_Stop(s) ==
    /\ retPc[s] = "loop"
    /\ stopped[s]
    /\ finalPasses' = [finalPasses EXCEPT ![s] = @ + 1]
    /\ retPc' = [retPc EXCEPT ![s] = "done"]
    /\ UNCHANGED <<ptrVars, confVars, prodVars, nStores, sOpts, queue, stopped, runPc,
                   runRec, dbOpen, insertLog>>
    /\ UNCHANGED <<acceptLog, persisted>>
    /\ UNCHANGED otherVars

(* ------------------------------------------------------ ConfigureDatabase *)
Persisting(n) == n.Enabled /\ n.Path # <<>>

\* ConfigureDatabase returns v; its locals go out of scope.
Return(c, v) ==
    /\ cPc' = [cPc EXCEPT ![c] = "idle"]
    /\ cOpts' = [cOpts EXCEPT ![c] = NoOpts]
    /\ cNorm' = [cNorm EXCEPT ![c] = NoOpts]
    /\ cStore' = [cStore EXCEPT ![c] = 0]
    /\ cRet' = [cRet EXCEPT ![c] = v]

\* A caller enters ConfigureDatabase(opts).
ConfigureDatabase_Call(c, opts) ==
    /\ cPc[c] = "idle"
    /\ cPc' = [cPc EXCEPT ![c] = "load"]
    /\ cOpts' = [cOpts EXCEPT ![c] = opts]
    /\ UNCHANGED <<ptrVars, storeVars, prodVars, cNorm, cStore, cRet>>
    /\ UNCHANGED histVars
    /\ UNCHANGED otherVars

\* Lines 43-47 and the branch of line 49.
ConfigureDatabase_Load(c) ==
    /\ cPc[c] = "load"
    /\ LET normalized == normalizeDatabaseOptions(cOpts[c])
           prev == currentDBConfig
       IN  IF configsEqual(prev, <<normalized>>)
           THEN Return(c, "nil")
           ELSE /\ cNorm' = [cNorm EXCEPT ![c] = normalized]
                /\ cPc' = [cPc EXCEPT ![c] =
                              IF ~normalized.Enabled \/ normalized.Path = <<>>
                              THEN "disStore" ELSE "new"]
                /\ UNCHANGED <<cOpts, cStore, cRet>>
    /\ UNCHANGED <<ptrVars, storeVars, prodVars>>
    /\ UNCHANGED histVars
    /\ UNCHANGED otherVars

\* Line 50: currentDBConfig.Store(&normalized).
ConfigureDatabase_DisableStore(c) ==
    /\ cPc[c] = "disStore"
    /\ currentDBConfig' = <<cNorm[c]>>
    /\ cPc' = [cPc EXCEPT ![c] = "disSwap"]
    /\ UNCHANGED <<currentUsageStore, storeVars, prodVars, cOpts, cNorm, cStore, cRet>>
    /\ UNCHANGED histVars
    /\ UNCHANGED otherVars

\* The disabling call read the pointer and left it in place.
ConfigureDatabase_DisableSwap_Load(c) ==
    /\ cPc[c] = "disSwap"
    /\ IF currentUsageStore # 0
       THEN /\ cStore' = [cStore EXCEPT ![c] = currentUsageStore]
            /\ cPc' = [cPc EXCEPT ![c] = "closeStop"]
            /\ UNCHANGED <<cOpts, cNorm, cRet>>
       ELSE Return(c, "nil")
    /\ UNCHANGED <<ptrVars, storeVars, prodVars>>
    /\ UNCHANGED histVars
    /\ UNCHANGED otherVars

\* Lines 51-55: prevStore := currentUsageStore.Swap(nil).
ConfigureDatabase_DisableSwap(c) ==
    /\ cPc[c] = "disSwap"
    /\ currentUsageStore' = 0
    /\ IF currentUsageStore # 0
       THEN /\ cStore' = [cStore EXCEPT ![c] = currentUsageStore]
            /\ cPc' = [cPc EXCEPT ![c] = "closeStop"]
            /\ UNCHANGED <<cOpts, cNorm, cRet>>
       ELSE Return(c, "nil")
    /\ UNCHANGED <<currentDBConfig, storeVars, prodVars>>
    /\ UNCHANGED histVars
    /\ UNCHANGED otherVars

\* newUsageStore returned the store without starting its goroutines.
newUsageStore_Ok_NoWorkers(c) ==
    /\ cPc[c] = "new"
    /\ cNorm[c].Path # <<>>
    /\ nStores < MaxStores
    /\ LET s == nStores + 1 IN
        /\ nStores' = s
        /\ sOpts' = [sOpts EXCEPT ![s] = cNorm[c]]
        /\ dbOpen' = [dbOpen EXCEPT ![s] = TRUE]
        /\ cStore' = [cStore EXCEPT ![c] = s]
    /\ cPc' = [cPc EXCEPT ![c] = "swap"]
    /\ UNCHANGED <<ptrVars, prodVars, queue, stopped, runPc, retPc, runRec, insertLog,
                   cOpts, cNorm, cRet>>
    /\ UNCHANGED histVars
    /\ UNCHANGED otherVars

\* newUsageStore succeeds: the handle is open, the schema applied, both
\* goroutines started.
newUsageStore_Ok(c) ==
    /\ cPc[c] = "new"
    /\ cNorm[c].Path # <<>>
    /\ nStores < MaxStores
    /\ LET s == nStores + 1 IN
        /\ nStores' = s
        /\ sOpts' = [sOpts EXCEPT ![s] = cNorm[c]]
        /\ dbOpen' = [dbOpen EXCEPT ![s] = TRUE]
        /\ runPc' = [runPc EXCEPT ![s] = "select"]
        /\ retPc' = [retPc EXCEPT ![s] = "loop"]
        /\ cStore' = [cStore EXCEPT ![c] = s]
    /\ cPc' = [cPc EXCEPT ![c] = "swap"]
    /\ UNCHANGED <<ptrVars, prodVars, queue, stopped, runRec, insertLog, cOpts, cNorm, cRet>>
    /\ UNCHANGED histVars
    /\ UNCHANGED otherVars

\* The failing call recorded its options as the active configuration.
newUsageStore_Err_StoresConfig(c) ==
    /\ cPc[c] = "new"
    /\ currentDBConfig' = <<cNorm[c]>>
    /\ Return(c, "err")
    /\ UNCHANGED <<currentUsageStore, storeVars, prodVars>>
    /\ UNCHANGED histVars
    /\ UNCHANGED otherVars

\* newUsageStore fails (mkdir, open or schema): lines 59-61 return the error.
newUsageStore_Err(c) ==
    /\ cPc[c] = "new"
    /\ Return(c, "err")
    /\ UNCHANGED <<ptrVars, storeVars, prodVars>>
    /\ UNCHANGED histVars
    /\ UNCHANGED otherVars

\* Lines 62-65: old := currentUsageStore.Swap(store).
ConfigureDatabase_Swap(c) ==
    /\ cPc[c] = "swap"
    /\ currentUsageStore' = cStore[c]
    /\ IF currentUsageStore # 0
       THEN /\ cStore' = [cStore EXCEPT ![c] = currentUsageStore]
            /\ cPc' = [cPc EXCEPT ![c] = "closeStop"]
       ELSE /\ cStore' = [cStore EXCEPT ![c] = 0]
            /\ cPc' = [cPc EXCEPT ![c] = "enStore"]
    /\ UNCHANGED <<currentDBConfig, storeVars, prodVars, cOpts, cNorm, cRet>>
    /\ UNCHANGED histVars
    /\ UNCHANGED otherVars

\* close(): close(s.stop).  Every select parked on the store takes its stop
\* case: the parked enqueue calls return the error.
close_Stop(c) ==
    /\ cPc[c] = "closeStop"
    /\ LET s == cStore[c] IN
        /\ stopped' = [stopped EXCEPT ![s] = TRUE]
        /\ pPc' = [p \in Producers |-> IF p \in Blocked(s) THEN "idle" ELSE pPc[p]]
        /\ pStore' = [p \in Producers |-> IF p \in Blocked(s) THEN 0 ELSE pStore[p]]
        /\ pRec' = [p \in Producers |-> IF p \in Blocked(s) THEN 0 ELSE pRec[p]]
        /\ recRes' = [r \in RecIds |->
                        IF \E p \in Blocked(s) : pRec[p] = r THEN "err" ELSE recRes[r]]
    /\ cPc' = [cPc EXCEPT ![c] = "closeWait"]
    /\ UNCHANGED <<ptrVars, nStores, sOpts, queue, runPc, runRec, retPc, dbOpen, insertLog,
                   cOpts, cNorm, cStore, cRet, nRecs, recStore, okBeforeClose>>
    /\ UNCHANGED histVars
    /\ UNCHANGED otherVars

\* close() went on to s.db.Close() without waiting for the two goroutines.
close_Wait_NoWait(c) ==
    /\ cPc[c] = "closeWait"
    /\ cPc' = [cPc EXCEPT ![c] = "closeDb"]
    /\ UNCHANGED <<ptrVars, storeVars, prodVars, cOpts, cNorm, cStore, cRet>>
    /\ UNCHANGED histVars
    /\ UNCHANGED otherVars

\* close(): s.wg.Wait() returns once run() and retentionLoop() have returned.
close_Wait(c) ==
    /\ cPc[c] = "closeWait"
    /\ runPc[cStore[c]] = "done"
    /\ retPc[cStore[c]] = "done"
    /\ cPc' = [cPc EXCEPT ![c] = "closeDb"]
    /\ UNCHANGED <<ptrVars, storeVars, prodVars, cOpts, cNorm, cStore, cRet>>
    /\ UNCHANGED histVars
    /\ UNCHANGED otherVars

\* close(): s.db.Close(); then line 55 returns, or line 66 follows.
close_Db(c) ==
    /\ cPc[c] = "closeDb"
    /\ dbOpen' = [dbOpen EXCEPT ![cStore[c]] = FALSE]
    /\ IF Persisting(cNorm[c])
       THEN /\ cPc' = [cPc EXCEPT ![c] = "enStore"]
            /\ cStore' = [cStore EXCEPT ![c] = 0]
            /\ UNCHANGED <<cOpts, cNorm, cRet>>
       ELSE Return(c, "nil")
    /\ UNCHANGED <<ptrVars, prodVars, nStores, sOpts, queue, stopped, runPc, runRec, retPc,
                   insertLog>>
    /\ UNCHANGED histVars
    /\ UNCHANGED otherVars

\* Lines 66-67: currentDBConfig.Store(&normalized); return nil.
ConfigureDatabase_EnableStore(c) ==
    /\ cPc[c] = "enStore"
    /\ currentDBConfig' = <<cNorm[c]>>
    /\ Return(c, "nil")
    /\ UNCHANGED <<currentUsageStore, storeVars, prodVars>>
    /\ UNCHANGED histVars
    /\ UNCHANGED otherVars

(* ------------------------------------------------------------ HandleUsage *)
\* Lines 90-119: store := currentUsageStore.Load(); nil returns at once.
HandleUsage_Load(p) ==
    /\ pPc[p] = "idle"
    /\ nRecs < MaxRecords
    /\ IF currentUsageStore = 0
       THEN UNCHANGED prodVars
       ELSE /\ nRecs' = nRecs + 1
            /\ pRec' = [pRec EXCEPT ![p] = nRecs + 1]
            /\ pStore' = [pStore EXCEPT ![p] = currentUsageStore]
            /\ recStore' = [recStore EXCEPT ![nRecs + 1] = currentUsageStore]
            /\ pPc' = [pPc EXCEPT ![p] = "enqueue"]
            /\ UNCHANGED <<recRes, okBeforeClose>>
    /\ UNCHANGED <<ptrVars, storeVars, confVars>>
    /\ UNCHANGED histVars
    /\ UNCHANGED otherVars

\* enqueue: select { case s.queue <- rec: return nil
\*                   case <-s.stop: return errors.New(...) }
\* Neither case ready: the goroutine parks.  Both ready: either is taken.
enqueue_Send(p) ==
    /\ pPc[p] = "enqueue"
    /\ Len(queue[pStore[p]]) < QueueCap
    /\ queue' = [queue EXCEPT ![pStore[p]] = Append(@, pRec[p])]
    /\ acceptLog' = [acceptLog EXCEPT ![pStore[p]] = Append(@, pRec[p])]
    /\ okBeforeClose' = IF stopped[pStore[p]] THEN okBeforeClose
                        ELSE okBeforeClose \cup {pRec[p]}
    /\ EnqueueReturns(p, "ok")
    /\ UNCHANGED <<ptrVars, confVars, nStores, sOpts, stopped, runPc, runRec, retPc, dbOpen,
                   insertLog, nRecs, recStore>>
    /\ UNCHANGED <<persisted, finalPasses>>
    /\ UNCHANGED otherVars

enqueue_Stopped(p) ==
    /\ pPc[p] = "enqueue"
    /\ stopped[pStore[p]]
    /\ EnqueueReturns(p, "err")
    /\ UNCHANGED <<ptrVars, storeVars, confVars, nRecs, recStore, okBeforeClose>>
    /\ UNCHANGED histVars
    /\ UNCHANGED otherVars

\* A select with a default case: the full queue is reported at once.
enqueue_Park_Default(p) ==
    /\ pPc[p] = "enqueue"
    /\ ~(Len(queue[pStore[p]]) < QueueCap)
    /\ ~stopped[pStore[p]]
    /\ EnqueueReturns(p, "err")
    /\ UNCHANGED <<ptrVars, storeVars, confVars, nRecs, recStore, okBeforeClose>>
    /\ UNCHANGED histVars
    /\ UNCHANGED otherVars

enqueue_Park(p) ==
    /\ pPc[p] = "enqueue"
    /\ ~(Len(queue[pStore[p]]) < QueueCap)
    /\ ~stopped[pStore[p]]
    /\ pPc' = [pPc EXCEPT ![p] = "blocked"]
    /\ UNCHANGED <<ptrVars, storeVars, confVars, pStore, pRec, nRecs, recRes, recStore,
                   okBeforeClose>>
    /\ UNCHANGED histVars
    /\ UNCHANGED otherVars

(* ------------------------------------------------------------------ Spec *)
Next ==
    \/ \E c \in Configurers, o \in OptionInputs : ConfigureDatabase_Call(c, o)
    \/ \E c \in Configurers : ConfigureDatabase_Load(c)
    \/ \E c \in Configurers : ConfigureDatabase_DisableStore(c)
    \/ \E c \in Configurers : ConfigureDatabase_DisableSwap(c)
    \/ \E c \in Configurers : newUsageStore_Ok(c)
    \/ \E c \in Configurers : newUsageStore_Err(c)
    \/ \E c \in Configurers : ConfigureDatabase_Swap(c)
    \/ \E c \in Configurers : close_Stop(c)
    \/ \E c \in Configurers : close_Wait(c)
    \/ \E c \in Configurers : close_Db(c)
    \/ \E c \in Configurers : ConfigureDatabase_EnableStore(c)
    \/ \E s \in StoreIds : run_Receive(s)
    \/ \E s \in StoreIds : run_Stop(s)
    \/ \E s \in StoreIds : run_Insert(s)
    \/ \E s \in StoreIds : drainRemaining_Poll(s)
    \/ \E s \in StoreIds : drainRemaining_Insert(s)
    \/ \E s \in StoreIds : retentionLoop_Pass(s)
    \/ \E s \in StoreIds : retentionLoop_Stop(s)
    \/ \E p \in Producers : HandleUsage_Load(p)
    \/ \E p \in Producers : enqueue_Send(p)
    \/ \E p \in Producers : enqueue_Stopped(p)
    \/ \E p \in Producers : enqueue_Park(p)

Spec == Init /\ [][Next]_vars

\* The scheduler lets every goroutine that can take a step take it: the two
\* workers of each store, and a caller inside close().
Fairness ==
    /\ \A s \in StoreIds :
          /\ WF_vars(run_Receive(s))
          /\ WF_vars(run_Stop(s))
          /\ WF_vars(run_Insert(s))
          /\ WF_vars(drainRemaining_Poll(s))
          /\ WF_vars(drainRemaining_Insert(s))
          /\ WF_vars(retentionLoop_Stop(s))
    /\ \A c \in Configurers :
          /\ WF_vars(close_Stop(c))
          /\ WF_vars(close_Wait(c))
          /\ WF_vars(close_Db(c))

\* The options of the calls made under the fair scheduler: disable and
\* enable, so that stores are opened, stopped and closed again and again.
LiveOptionInputs ==
    { DatabaseOptions(FALSE, <<>>, 0),
      DatabaseOptions(TRUE, <<"a">>, 3) }

NextLive ==
    \/ \E c \in Configurers, o \in LiveOptionInputs : ConfigureDatabase_Call(c, o)
    \/ \E c \in Configurers : ConfigureDatabase_Load(c)
    \/ \E c \in Configurers : ConfigureDatabase_DisableStore(c)
    \/ \E c \in Configurers : ConfigureDatabase_DisableSwap(c)
    \/ \E c \in Configurers : newUsageStore_Ok(c)
    \/ \E c \in Configurers : newUsageStore_Err(c)
    \/ \E c \in Configurers : ConfigureDatabase_Swap(c)
    \/ \E c \in Configurers : close_Stop(c)
    \/ \E c \in Configurers : close_Wait(c)
    \/ \E c \in Configurers : close_Db(c)
    \/ \E c \in Configurers : ConfigureDatabase_EnableStore(c)
    \/ \E s \in StoreIds : run_Receive(s)
    \/ \E s \in StoreIds : run_Stop(s)
    \/ \E s \in StoreIds : run_Insert(s)
    \/ \E s \in StoreIds : drainRemaining_Poll(s)
    \/ \E s \in StoreIds : drainRemaining_Insert(s)
    \/ \E s \in StoreIds : retentionLoop_Pass(s)
    \/ \E s \in StoreIds : retentionLoop_Stop(s)
    \/ \E p \in Producers : HandleUsage_Load(p)
    \/ \E p \in Producers : enqueue_Send(p)
    \/ \E p \in Producers : enqueue_Stopped(p)
    \/ \E p \in Producers : enqueue_Park(p)

\* Records dispatched while the store is reconfigured, under a fair scheduler.
SpecLive == Init /\ [][NextLive]_vars /\ Fairness

\* Concurrent reconfiguration with no record in flight: the ConfigureDatabase
\* steps and the steps the two goroutines of a store take once it is stopped.
NextRace ==
    \/ \E c \in Configurers, o \in OptionInputs : ConfigureDatabase_Call(c, o)
    \/ \E c \in Configurers : ConfigureDatabase_Load(c)
    \/ \E c \in Configurers : ConfigureDatabase_DisableStore(c)
    \/ \E c \in Configurers : ConfigureDatabase_DisableSwap(c)
    \/ \E c \in Configurers : newUsageStore_Ok(c)
    \/ \E c \in Configurers : newUsageStore_Err(c)
    \/ \E c \in Configurers : ConfigureDatabase_Swap(c)
    \/ \E c \in Configurers : close_Stop(c)
    \/ \E c \in Configurers : close_Wait(c)
    \/ \E c \in Configurers : close_Db(c)
    \/ \E c \in Configurers : ConfigureDatabase_EnableStore(c)
    \/ \E s \in StoreIds : run_Stop(s)
    \/ \E s \in StoreIds : drainRemaining_Poll(s)
    \/ \E s \in StoreIds : retentionLoop_Pass(s)
    \/ \E s \in StoreIds : retentionLoop_Stop(s)

SpecRace == InitRace /\ [][NextRace]_vars

(* ---------------------------------------------------------------- insert *)
InitDB ==
    /\ InitStore
    /\ InitTables
    /\ NoIdentity
    /\ InitOTLP
    /\ hPc = [h \in Handlers |-> "off"]
    /\ cPc = [c \in Configurers |-> "off"]
    /\ pPc = [p \in Producers |-> "off"]

\* time passes
Tick ==
    /\ now < MaxNow
    /\ now' = now + 1
    /\ UNCHANGED <<lifeVars, otlpVars, idVars, retCutoff, usage_requests, usage_daily, insPc, insRec, txRequests,
                   txDaily, insRet, okLog, nIns>>

\* HandleUsage builds the dbRecord of a dispatched record; the insert worker
\* receives it and calls insert(rec).
insert_Call(ctx, record, tokens) ==
    /\ insPc = "idle"
    /\ nIns < MaxInserts
    /\ nIns' = nIns + 1
    /\ insRec' = <<dbRecord(ctx, record, tokens, now)>>
    /\ insPc' = "begin"
    /\ UNCHANGED <<lifeVars, otlpVars, idVars, retCutoff, now, usage_requests, usage_daily, txRequests, txDaily,
                   insRet, okLog>>

\* Line 346: s.db.BeginTx succeeded.
insert_BeginTx ==
    /\ insPc = "begin"
    /\ insPc' = "requests"
    /\ UNCHANGED <<lifeVars, otlpVars, idVars, retCutoff, now, usage_requests, usage_daily, insRec,
                   txRequests, txDaily, insRet, okLog, nIns>>

\* Lines 354-366: INSERT INTO usage_requests succeeded.  The first write takes
\* the database's write lock: from here on the transaction works on the
\* tables as they are now, and no other statement writes until it ends.
insert_Requests ==
    /\ insPc = "requests"
    /\ txRequests' = <<RequestRow(insRec[1])>>
    /\ txDaily' = usage_daily
    /\ insPc' = "daily"
    /\ UNCHANGED <<lifeVars, otlpVars, idVars, retCutoff, now, usage_requests, usage_daily, insRec,
                   insRet, okLog, nIns>>

\* Lines 368-390: the usage_daily upsert succeeded.
insert_Daily ==
    /\ insPc = "daily"
    /\ txDaily' = Upsert(txDaily, DailyRow(insRec[1]))
    /\ insPc' = "commit"
    /\ UNCHANGED <<lifeVars, otlpVars, idVars, retCutoff, now, usage_requests, usage_daily, insRec, txRequests, insRet,
                   okLog, nIns>>

\* Line 392: tx.Commit() succeeded; insert returns nil.
insert_Commit ==
    /\ insPc = "commit"
    /\ usage_requests' = usage_requests \o txRequests
    /\ usage_daily' = txDaily
    /\ okLog' = Append(okLog, insRec[1])
    /\ insRet' = "nil"
    /\ insPc' = "idle"
    /\ insRec' = <<>>
    /\ txRequests' = <<>>
    /\ txDaily' = <<>>
    /\ UNCHANGED <<lifeVars, otlpVars, idVars, retCutoff, now, nIns>>

\* The statements ran outside a transaction: what was written stays.
insert_Error_NoRollback ==
    /\ insPc \in {"begin", "requests", "daily", "commit"}
    /\ usage_requests' = usage_requests \o txRequests
    /\ insRet' = "err"
    /\ insPc' = "idle"
    /\ insRec' = <<>>
    /\ txRequests' = <<>>
    /\ txDaily' = <<>>
    /\ UNCHANGED <<lifeVars, otlpVars, idVars, retCutoff, now, usage_daily, okLog, nIns>>

\* BeginTx, either statement or Commit failed: insert returns the error and
\* the deferred tx.Rollback() discards what the transaction wrote.
insert_Error ==
    /\ insPc \in {"begin", "requests", "daily", "commit"}
    /\ insRet' = "err"
    /\ insPc' = "idle"
    /\ insRec' = <<>>
    /\ txRequests' = <<>>
    /\ txDaily' = <<>>
    /\ UNCHANGED <<lifeVars, otlpVars, idVars, retCutoff, now, usage_requests, usage_daily, okLog, nIns>>

NextDB ==
    \/ Tick
    \/ \E ctx \in CtxInputs, record \in RecordInputs, tokens \in TokenInputs :
          insert_Call(ctx, record, tokens)
    \/ insert_BeginTx
    \/ insert_Requests
    \/ insert_Daily
    \/ insert_Commit
    \/ insert_Error

\* One store's insert worker inserting the records dispatched to it.
SpecDB == InitDB /\ [][NextDB]_vars

(* -------------------------------------------------------------- identity *)
\* Records with every combination of empty and set identity fields, and two
\* different keys.
IdentityInputs ==
    { Record(provider, "m", authID, source, apiKey, FALSE, 1) :
        provider \in {"", "qwen"}, authID \in {"", "auth-A"},
        source \in {"", "source-A"}, apiKey \in {"", "key-1", "key-2"} }

\* A pair of records that differ at most in their raw key.
InitIdentity ==
    /\ InitStore
    /\ InitTables
    /\ InitOTLP
    /\ hPc = [h \in Handlers |-> "off"]
    /\ cPc = [c \in Configurers |-> "off"]
    /\ pPc = [p \in Producers |-> "off"]
    /\ idA \in IdentityInputs
    /\ idB \in { r \in IdentityInputs : [r EXCEPT !.APIKey = idA.APIKey] = idA }
    /\ idRows = <<>>

\* What HandleUsage and insert persist for a record: the usage_requests row
\* and the usage_daily row proposed for its dbRecord.
Persist(ctx, record, tokens) ==
    LET rec == dbRecord(ctx, record, tokens, now)
    IN  [request |-> RequestRow(rec), daily |-> DailyRow(rec)]

\* Both records are handled, in the same request context with the same token
\* counts.
HandleUsage_Persist(ctx, tokens) ==
    /\ idRows = <<>>
    /\ idRows' = <<Persist(ctx, idA, tokens), Persist(ctx, idB, tokens)>>
    /\ UNCHANGED <<lifeVars, dbVars, otlpVars, retCutoff, idA, idB>>

NextIdentity ==
    \E ctx \in CtxInputs, tokens \in TokenInputs : HandleUsage_Persist(ctx, tokens)

SpecIdentity == InitIdentity /\ [][NextIdentity]_vars

(* ------------------------------------------------------------- retention *)
\* The state ConfigureDatabase(opts) leaves on a fresh process when
\* newUsageStore succeeds: store 1 opened from the normalized options, both
\* workers started, the store and the configuration current.
Configured(opts) ==
    LET normalized == normalizeDatabaseOptions(opts) IN
    /\ Persisting(normalized)
    /\ currentUsageStore = 1
    /\ currentDBConfig = <<normalized>>
    /\ nStores = 1
    /\ sOpts = [s \in StoreIds |-> IF s = 1 THEN normalized ELSE NoOpts]
    /\ queue = [s \in StoreIds |-> <<>>]
    /\ stopped = [s \in StoreIds |-> FALSE]
    /\ runPc = [s \in StoreIds |-> IF s = 1 THEN "select" ELSE "none"]
    /\ runRec = [s \in StoreIds |-> 0]
    /\ retPc = [s \in StoreIds |-> IF s = 1 THEN "loop" ELSE "none"]
    /\ dbOpen = [s \in StoreIds |-> s = 1]
    /\ insertLog = [s \in StoreIds |-> <<>>]
    /\ acceptLog = [s \in StoreIds |-> <<>>]
    /\ persisted = {}
    /\ finalPasses = [s \in StoreIds |-> 0]
    /\ cPc = [c \in Configurers |-> IF c = "c1" THEN "idle" ELSE "off"]
    /\ cOpts = [c \in Configurers |-> NoOpts]
    /\ cNorm = [c \in Configurers |-> NoOpts]
    /\ cStore = [c \in Configurers |-> 0]
    /\ cRet = [c \in Configurers |-> "nil"]
    /\ pPc = [p \in Producers |-> "off"]
    /\ pStore = [p \in Producers |-> 0]
    /\ pRec = [p \in Producers |-> 0]
    /\ nRecs = 0
    /\ recRes = [r \in RecIds |-> "none"]
    /\ recStore = [r \in RecIds |-> 0]
    /\ okBeforeClose = {}
    /\ InitTables
    /\ NoIdentity
    /\ InitOTLP
    /\ hPc = [h \in Handlers |-> "off"]

\* A store configured with any of the enabling options.
InitRetention == \E opts \in OptionInputs : Configured(opts)

\* A store configured with retentionDays zero or negative.
UnsetRetentionInputs == { DatabaseOptions(TRUE, <<"a">>, r) : r \in {0, -1} }
InitUnset == \E opts \in UnsetRetentionInputs : Configured(opts)

\* The records inserted while retention runs: requested now, three days ago
\* (at the start of the day in which a three-day cutoff falls), four days ago
\* and twenty days ago.
RetentionRecordInputs ==
    { Record("qwen", "qwen3-coder", "auth-A", "", "", FALSE, requestedAt) :
        requestedAt \in {0, 0 - 3 * TicksPerDay, 0 - 4 * TicksPerDay, 0 - 20 * TicksPerDay} }

\* An insert transaction that has written holds the write lock of the
\* database file; a DELETE issued meanwhile waits for busy_timeout and fails.
WriteLocked == insPc \in {"daily", "commit"}

\* DELETE FROM usage_requests WHERE timestamp < ? deleted every row.
DeleteRequests_All(table, cutoff) == <<>>

\* DELETE FROM usage_requests WHERE timestamp < ?
DeleteRequests(table, cutoff) ==
    SelectSeq(table, LAMBDA row : ~(row.timestamp < cutoff))

\* The DELETE on usage_daily took the row of the cutoff day as well.
DeleteDaily_Through(table, cutoff) ==
    SelectSeq(table, LAMBDA row : ~(row.day <= Day(cutoff)))

\* DELETE FROM usage_daily WHERE day < ?, with cutoff.Format("2006-01-02")
DeleteDaily(table, cutoff) ==
    SelectSeq(table, LAMBDA row : ~(row.day < Day(cutoff)))

\* applyRetention lines 330-333: a store without retention returns at once;
\* otherwise the cutoff is now minus retentionDays days.  final: the call is
\* the one of the stop case, after which retentionLoop returns.
applyRetention_Enter(s, final) ==
    /\ IF sOpts[s].RetentionDays <= 0
       THEN /\ retPc' = [retPc EXCEPT ![s] = IF final THEN "done" ELSE "loop"]
            /\ UNCHANGED retCutoff
       ELSE /\ retCutoff' = [retCutoff EXCEPT ![s] =
                                now - sOpts[s].RetentionDays * TicksPerDay]
            /\ retPc' = [retPc EXCEPT ![s] = IF final THEN "finalRequests" ELSE "requests"]
    /\ finalPasses' = [finalPasses EXCEPT ![s] = IF final THEN @ + 1 ELSE @]
    /\ UNCHANGED <<ptrVars, confVars, prodVars, nStores, sOpts, queue, stopped, runPc,
                   runRec, dbOpen, insertLog, acceptLog, persisted, dbVars, otlpVars, idVars>>

\* retentionLoop: case <-ticker.C: s.applyRetention().
retentionLoop_Ticker(s) ==
    /\ retPc[s] = "loop"
    /\ applyRetention_Enter(s, FALSE)

\* retentionLoop: case <-s.stop: s.applyRetention(); return.
retentionLoop_StopCase(s) ==
    /\ retPc[s] = "loop"
    /\ stopped[s]
    /\ applyRetention_Enter(s, TRUE)

\* applyRetention lines 334-337: the DELETE on usage_requests runs, or fails
\* and is logged.
applyRetention_Requests(s) ==
    /\ retPc[s] \in {"requests", "finalRequests"}
    /\ \E err \in BOOLEAN :
          /\ ~err => ~WriteLocked
          /\ usage_requests' = IF err THEN usage_requests
                               ELSE DeleteRequests(usage_requests, retCutoff[s])
    /\ retPc' = [retPc EXCEPT ![s] = IF @ = "requests" THEN "daily" ELSE "finalDaily"]
    /\ UNCHANGED <<ptrVars, confVars, prodVars, histVars, nStores, sOpts, queue, stopped,
                   runPc, runRec, dbOpen, insertLog, otlpVars, idVars, retCutoff, now, usage_daily,
                   insPc, insRec, txRequests, txDaily, insRet, okLog, nIns>>

\* applyRetention lines 338-342: the DELETE on usage_daily runs, or fails and
\* is logged; applyRetention returns, and after the stop case so does
\* retentionLoop (wg.Done()).
applyRetention_Daily(s) ==
    /\ retPc[s] \in {"daily", "finalDaily"}
    /\ \E err \in BOOLEAN :
          /\ ~err => ~WriteLocked
          /\ usage_daily' = IF err THEN usage_daily
                            ELSE DeleteDaily(usage_daily, retCutoff[s])
    /\ retPc' = [retPc EXCEPT ![s] = IF @ = "daily" THEN "loop" ELSE "done"]
    /\ UNCHANGED <<ptrVars, confVars, prodVars, histVars, nStores, sOpts, queue, stopped,
                   runPc, runRec, dbOpen, insertLog, otlpVars, idVars, retCutoff, now,
                   usage_requests, insPc, insRec, txRequests, txDaily, insRet, okLog, nIns>>

\* A store's retention worker and its insert worker on the tables, until a
\* disabling ConfigureDatabase call has raised the stop signal and the
\* retention worker has returned.
NextRetention ==
    \/ Tick
    \/ \E record \in RetentionRecordInputs :
          insert_Call(<<>>, record, TokenStats(10, 15, 0, 0, 25))
    \/ insert_BeginTx
    \/ insert_Requests
    \/ insert_Daily
    \/ insert_Commit
    \/ insert_Error
    \/ \E s \in StoreIds : retentionLoop_Ticker(s)
    \/ \E s \in StoreIds : retentionLoop_StopCase(s)
    \/ \E s \in StoreIds : applyRetention_Requests(s)
    \/ \E s \in StoreIds : applyRetention_Daily(s)
    \/ \E c \in Configurers : ConfigureDatabase_Call(c, NoOpts)
    \/ \E c \in Configurers : ConfigureDatabase_Load(c)
    \/ \E c \in Configurers : ConfigureDatabase_DisableStore(c)
    \/ \E c \in Configurers : ConfigureDatabase_DisableSwap(c)
    \/ \E c \in Configurers : close_Stop(c)

SpecRetention == InitRetention /\ [][NextRetention]_vars

\* The same workers on a store configured with retentionDays <= 0.
SpecUnset == InitUnset /\ [][NextRetention]_vars

(* ------------------------------------------------------------ OTLPPlugin *)
InitExporter ==
    /\ InitStore
    /\ InitTables
    /\ NoIdentity
    /\ \E env \in EnvInputs : NewOTLPPlugin(env)
    /\ cPc = [c \in Configurers |-> "off"]
    /\ pPc = [p \in Producers |-> "off"]
    /\ hPc = [h \in Handlers |-> "idle"]

\* SetEnabled: p.enabled = enabled, under enabledMu.
SetEnabled(enabled) ==
    /\ oEnabled' = enabled
    /\ UNCHANGED <<lifeVars, dbVars, idVars, retCutoff, muVars, oHist, oEndpoint, oBatch, oStopClosed, oTickerOn, oFlushPc,
                   oClosePc, hPc, hRec, oSends, nDisp>>

\* SetEndpoint: p.endpoint = strings.TrimSpace(endpoint), under enabledMu.
SetEndpoint(endpoint) ==
    /\ oEndpoint' = TrimSpace(endpoint)
    /\ oLastSet' = <<endpoint>>
    /\ UNCHANGED <<lifeVars, dbVars, idVars, retCutoff, muVars, oRefused, oEnabled, oBatch, oStopClosed, oTickerOn, oFlushPc,
                   oClosePc, hPc, hRec, oSends, nDisp>>

\* HandleUsage went on to send without looking at enabled.
HandleUsage_ReadEnabled_Always(h) ==
    /\ hPc[h] = "idle"
    /\ nDisp < MaxDispatch
    /\ nDisp' = nDisp + 1
    /\ hPc' = [hPc EXCEPT ![h] = "send"]
    /\ hRec' = [hRec EXCEPT ![h] = nDisp + 1]
    /\ oRefused' = IF oEnabled THEN oRefused ELSE oRefused \cup {nDisp + 1}
    /\ UNCHANGED <<lifeVars, dbVars, idVars, retCutoff, muVars, oLastSet, oEnabled, oEndpoint, oBatch,
                   oStopClosed, oTickerOn, oFlushPc, oClosePc, oSends>>

\* HandleUsage lines 77-83: enabled is read under the read lock; a disabled
\* exporter returns.
HandleUsage_ReadEnabled(h) ==
    /\ hPc[h] = "idle"
    /\ nDisp < MaxDispatch
    /\ nDisp' = nDisp + 1
    /\ IF oEnabled
       THEN /\ hPc' = [hPc EXCEPT ![h] = "send"]
            /\ hRec' = [hRec EXCEPT ![h] = nDisp + 1]
            /\ UNCHANGED oRefused
       ELSE /\ oRefused' = oRefused \cup {nDisp + 1}
            /\ UNCHANGED <<hPc, hRec>>
    /\ UNCHANGED <<lifeVars, dbVars, idVars, retCutoff, muVars, oLastSet, oEnabled, oEndpoint, oBatch, oStopClosed, oTickerOn,
                   oFlushPc, oClosePc, oSends>>

\* HandleUsage sent the event and appended the record to p.batch as well.
sendEvent_Do_Batched(h) ==
    /\ hPc[h] = "send"
    /\ oSends' = Append(oSends, [by |-> h, rec |-> hRec[h], endpoint |-> oEndpoint])
    /\ oBatch' = Append(oBatch, hRec[h])
    /\ hPc' = [hPc EXCEPT ![h] = "await"]
    /\ UNCHANGED <<lifeVars, dbVars, idVars, retCutoff, muVars, oHist, oEnabled, oEndpoint, oStopClosed,
                   oTickerOn, oFlushPc, oClosePc, hRec, nDisp>>

\* HandleUsage lines 86-89, sendEvent lines 152-165: the event is built and
\* p.client.Do(req) posts it to p.endpoint from the calling goroutine.
sendEvent_Do(h) ==
    /\ hPc[h] = "send"
    /\ oSends' = Append(oSends, [by |-> h, rec |-> hRec[h], endpoint |-> oEndpoint])
    /\ hPc' = [hPc EXCEPT ![h] = "await"]
    /\ UNCHANGED <<lifeVars, dbVars, idVars, retCutoff, muVars, oHist, oEnabled, oEndpoint, oBatch, oStopClosed, oTickerOn,
                   oFlushPc, oClosePc, hRec, nDisp>>

\* sendEvent lines 165-175: the collector answers, or the 5 s client timeout
\* ends the wait; HandleUsage logs an error if there is one and returns.
sendEvent_Done(h) ==
    /\ hPc[h] = "await"
    /\ hPc' = [hPc EXCEPT ![h] = "idle"]
    /\ hRec' = [hRec EXCEPT ![h] = 0]
    /\ UNCHANGED <<lifeVars, dbVars, idVars, retCutoff, muVars, oHist, oEnabled, oEndpoint, oBatch, oStopClosed, oTickerOn,
                   oFlushPc, oClosePc, oSends, nDisp>>

\* flushBatch by goroutine who: the batch is copied and cleared, and each
\* record of the copy is sent.
flushBatch(who) ==
    /\ oSends' = oSends \o [i \in DOMAIN oBatch |->
                               [by |-> who, rec |-> oBatch[i], endpoint |-> oEndpoint]]
    /\ oBatch' = <<>>

\* periodicFlush: case <-p.flushTicker.C: p.flushBatch().
periodicFlush_Tick ==
    /\ oFlushPc = "select"
    /\ oTickerOn
    /\ flushBatch("periodicFlush")
    /\ UNCHANGED <<lifeVars, dbVars, idVars, retCutoff, muVars, oHist, oEnabled, oEndpoint, oStopClosed, oTickerOn, oFlushPc,
                   oClosePc, hPc, hRec, nDisp>>

\* periodicFlush: case <-p.stopChan: return.
periodicFlush_Stop ==
    /\ oFlushPc = "select"
    /\ oStopClosed
    /\ oFlushPc' = "done"
    /\ UNCHANGED <<lifeVars, dbVars, idVars, retCutoff, muVars, oHist, oEnabled, oEndpoint, oBatch, oStopClosed, oTickerOn,
                   oClosePc, hPc, hRec, oSends, nDisp>>

\* Close lines 244-246: p.flushTicker.Stop().
Close_StopTicker ==
    /\ oClosePc = "idle"
    /\ oTickerOn' = FALSE
    /\ oClosePc' = "closeStop"
    /\ UNCHANGED <<lifeVars, dbVars, idVars, retCutoff, muVars, oHist, oEnabled, oEndpoint, oBatch, oStopClosed, oFlushPc,
                   hPc, hRec, oSends, nDisp>>

\* Close line 248: close(p.stopChan).
Close_CloseStop ==
    /\ oClosePc = "closeStop"
    /\ oStopClosed' = TRUE
    /\ oClosePc' = "flush"
    /\ UNCHANGED <<lifeVars, dbVars, idVars, retCutoff, muVars, oHist, oEnabled, oEndpoint, oBatch, oTickerOn, oFlushPc,
                   hPc, hRec, oSends, nDisp>>

\* Close line 251: p.flushBatch().
Close_Flush ==
    /\ oClosePc = "flush"
    /\ flushBatch("Close")
    /\ oClosePc' = "closed"
    /\ UNCHANGED <<lifeVars, dbVars, idVars, retCutoff, muVars, oHist, oEnabled, oEndpoint, oStopClosed, oTickerOn, oFlushPc,
                   hPc, hRec, nDisp>>

NextExporter ==
    \/ \E enabled \in BOOLEAN : SetEnabled(enabled)
    \/ \E endpoint \in EndpointInputs : SetEndpoint(endpoint)
    \/ \E h \in Handlers : HandleUsage_ReadEnabled(h)
    \/ \E h \in Handlers : sendEvent_Do(h)
    \/ \E h \in Handlers : sendEvent_Done(h)
    \/ periodicFlush_Tick
    \/ periodicFlush_Stop
    \/ Close_StopTicker
    \/ Close_CloseStop
    \/ Close_Flush

\* The exporter: records dispatched while it is reconfigured and closed.
SpecExporter == InitExporter /\ [][NextExporter]_vars

(* -------------------------------------------------------------- enabledMu *)
\* sync.RWMutex: Lock() needs no holder at all, RLock() no writer.
CanLock == enabledMu.writer = {} /\ enabledMu.readers = {}
CanRLock == enabledMu.writer = {}

\* a Go string is a data pointer and a length: the value made of the pointer
\* of data and the length n ("?" is a byte past the end of data)
Tear(data, n) == [i \in 1..n |-> IF i <= Len(data) THEN data[i] ELSE "?"]

\* What a read of p.endpoint that is not ordered with a write of it can
\* return: the old value, the new one, or the pointer of one with the length
\* of the other.
RacyRead(old, new) == {old, new, Tear(new, Len(old)), Tear(old, Len(new))}

\* The frame of a step of a setter or getter: nothing but the lock, the
\* caller and what it writes changes.
CallerFrame ==
    UNCHANGED <<lifeVars, dbVars, idVars, retCutoff, oRefused, oBatch, oStopClosed,
                oTickerOn, oFlushPc, oClosePc, hPc, hRec, oSends, nDisp>>

\* SetEnabled line 180: p.enabledMu.Lock().
SetEnabled_Lock(g, enabled) ==
    /\ gPc[g] = "idle"
    /\ CanLock
    /\ enabledMu' = [enabledMu EXCEPT !.writer = {g}]
    /\ gPc' = [gPc EXCEPT ![g] = "SetEnabled"]
    /\ gArg' = [gArg EXCEPT ![g] = enabled]
    /\ CallerFrame
    /\ UNCHANGED <<oEnabled, oEndpoint, oLastSet>>

\* SetEnabled line 181: p.enabled = enabled.
SetEnabled_Store(g) ==
    /\ gPc[g] = "SetEnabled"
    /\ oEnabled' = gArg[g]
    /\ gPc' = [gPc EXCEPT ![g] = "Unlock"]
    /\ CallerFrame
    /\ UNCHANGED <<enabledMu, gArg, oEndpoint, oLastSet>>

\* SetEndpoint line 194: p.enabledMu.Lock().
SetEndpoint_Lock(g, endpoint) ==
    /\ gPc[g] = "idle"
    /\ CanLock
    /\ enabledMu' = [enabledMu EXCEPT !.writer = {g}]
    /\ gPc' = [gPc EXCEPT ![g] = "SetEndpoint"]
    /\ gArg' = [gArg EXCEPT ![g] = endpoint]
    /\ CallerFrame
    /\ UNCHANGED <<oEnabled, oEndpoint, oLastSet>>

\* SetEndpoint line 195: p.endpoint = strings.TrimSpace(endpoint).
SetEndpoint_Store(g) ==
    /\ gPc[g] = "SetEndpoint"
    /\ oEndpoint' = TrimSpace(gArg[g])
    /\ oLastSet' = <<gArg[g]>>
    /\ gPc' = [gPc EXCEPT ![g] = "Unlock"]
    /\ CallerFrame
    /\ UNCHANGED <<enabledMu, gArg, oEnabled>>

\* SetEnabled line 182, SetEndpoint line 196: p.enabledMu.Unlock().
enabledMu_Unlock(g) ==
    /\ gPc[g] = "Unlock"
    /\ enabledMu' = [enabledMu EXCEPT !.writer = {}]
    /\ gPc' = [gPc EXCEPT ![g] = "idle"]
    /\ gArg' = [gArg EXCEPT ![g] = <<>>]
    /\ CallerFrame
    /\ UNCHANGED <<oEnabled, oEndpoint, oLastSet>>

\* IsEnabled line 187, GetEndpoint line 201: p.enabledMu.RLock().
enabledMu_RLock(g) ==
    /\ gPc[g] = "idle"
    /\ CanRLock
    /\ enabledMu' = [enabledMu EXCEPT !.readers = @ \cup {g}]
    /\ gPc' = [gPc EXCEPT ![g] = "RUnlock"]
    /\ CallerFrame
    /\ UNCHANGED <<gArg, oEnabled, oEndpoint, oLastSet>>

\* IsEnabled lines 188-189, GetEndpoint lines 202-203: the field is read and
\* the deferred RUnlock() runs.
enabledMu_RUnlock(g) ==
    /\ gPc[g] = "RUnlock"
    /\ enabledMu' = [enabledMu EXCEPT !.readers = @ \ {g}]
    /\ gPc' = [gPc EXCEPT ![g] = "idle"]
    /\ CallerFrame
    /\ UNCHANGED <<gArg, oEnabled, oEndpoint, oLastSet>>

\* HandleUsage line 77: p.enabledMu.RLock().
HandleUsage_RLock(h) ==
    /\ hPc[h] = "idle"
    /\ nDisp < MaxDispatch
    /\ CanRLock
    /\ enabledMu' = [enabledMu EXCEPT !.readers = @ \cup {h}]
    /\ hPc' = [hPc EXCEPT ![h] = "RUnlock"]
    /\ UNCHANGED <<lifeVars, dbVars, idVars, retCutoff, oHist, oEnabled, oEndpoint, oBatch,
                   oStopClosed, oTickerOn, oFlushPc, oClosePc, hRec, oSends, nDisp, gPc, gArg>>

\* HandleUsage lines 78-83: enabled := p.enabled; p.enabledMu.RUnlock(); a
\* disabled exporter returns.
HandleUsage_RUnlock(h) ==
    /\ hPc[h] = "RUnlock"
    /\ enabledMu' = [enabledMu EXCEPT !.readers = @ \ {h}]
    /\ nDisp' = nDisp + 1
    /\ IF oEnabled
       THEN /\ hPc' = [hPc EXCEPT ![h] = "send"]
            /\ hRec' = [hRec EXCEPT ![h] = nDisp + 1]
            /\ UNCHANGED oRefused
       ELSE /\ oRefused' = oRefused \cup {nDisp + 1}
            /\ hPc' = [hPc EXCEPT ![h] = "idle"]
            /\ UNCHANGED hRec
    /\ UNCHANGED <<lifeVars, dbVars, idVars, retCutoff, oLastSet, oEnabled, oEndpoint, oBatch,
                   oStopClosed, oTickerOn, oFlushPc, oClosePc, oSends, gPc, gArg>>

\* the SetEndpoint calls that hold the lock and have not stored yet
Storing == { g \in Callers : gPc[g] = "SetEndpoint" }

\* sendEvent lines 152-165: p.endpoint is read at line 157 with no lock held.
\* While a SetEndpoint call is at its store the read is not ordered with the
\* write, and the request goes to any of the values such a read can return.
sendEvent_NewRequest(h) ==
    /\ hPc[h] = "send"
    /\ \E url \in {oEndpoint} \cup
                   UNION { RacyRead(oEndpoint, TrimSpace(gArg[g])) : g \in Storing } :
          oSends' = Append(oSends, [by |-> h, rec |-> hRec[h], endpoint |-> url])
    /\ hPc' = [hPc EXCEPT ![h] = "await"]
    /\ UNCHANGED <<lifeVars, dbVars, idVars, retCutoff, muVars, oHist, oEnabled, oEndpoint,
                   oBatch, oStopClosed, oTickerOn, oFlushPc, oClosePc, hRec, nDisp>>

\* The exporter of a process started without DY_NOTI_OTEL_ENDPOINT, with
\* no database store.
InitLock ==
    /\ InitStore
    /\ InitTables
    /\ NoIdentity
    /\ InitOTLP
    /\ cPc = [c \in Configurers |-> "off"]
    /\ pPc = [p \in Producers |-> "off"]
    /\ hPc = [h \in Handlers |-> "idle"]

\* The endpoints set while records are sent: one of the default's length
\* after trimming, one that trims to the empty string.
LockEndpointInputs == { <<"u">>, <<" ">> }

NextLock ==
    \/ \E g \in Callers, enabled \in BOOLEAN : SetEnabled_Lock(g, enabled)
    \/ \E g \in Callers : SetEnabled_Store(g)
    \/ \E g \in Callers, endpoint \in LockEndpointInputs : SetEndpoint_Lock(g, endpoint)
    \/ \E g \in Callers : SetEndpoint_Store(g)
    \/ \E g \in Callers : enabledMu_Unlock(g)
    \/ \E g \in Callers : enabledMu_RLock(g)
    \/ \E g \in Callers : enabledMu_RUnlock(g)
    \/ \E h \in Handlers : HandleUsage_RLock(h)
    \/ \E h \in Handlers : HandleUsage_RUnlock(h)
    \/ \E h \in Handlers : sendEvent_NewRequest(h)
    \/ \E h \in Handlers : sendEvent_Done(h)

\* The exporter statement by statement around its configuration lock:
\* records dispatched while the setters and getters are called.
SpecLock == InitLock /\ [][NextLock]_vars

(* ---------------------------------------------------------------- claims *)
Count(seq, r) == Cardinality({ i \in DOMAIN seq : seq[i] = r })
Created(s) == s \in StoreIds /\ s <= nStores
Released(s) == Created(s) /\ ~dbOpen[s]
NoCallInProgress == \A c \in Configurers : cPc[c] \in {"idle", "off"}

\* C1: every record whose enqueue returned success has been passed to insert
\* exactly once on its store by the time that store's database handle is
\* released, whatever the interleaving of HandleUsage with the swap and close.
C1_NoRecordLostInSwap ==
    \A r \in RecIds :
        (recRes[r] = "ok" /\ Released(recStore[r]))
            => Count(insertLog[recStore[r]], r) = 1

\* C2: once close() has released a store's handle, every record whose enqueue
\* on that store returned nil before close() raised the stop signal has been
\* passed to insert exactly once; and no record is ever inserted twice.
C2_CleanShutdownLosesNothing ==
    /\ \A s \in StoreIds, r \in RecIds : Count(insertLog[s], r) <= 1
    /\ \A r \in okBeforeClose :
          Released(recStore[r]) => Count(insertLog[recStore[r]], r) = 1

\* C2 witness: a store's handle was released after every record dispatched,
\* each accepted before the stop signal, was inserted on it.
C2_Witness ==
    \E r \in okBeforeClose :
        /\ Released(recStore[r])
        /\ Count(insertLog[recStore[r]], r) = 1
        /\ Len(insertLog[recStore[r]]) = MaxRecords

\* C3: an enqueue call that runs on a stopped store returns the error and
\* leaves the queue as it was.
C3_EnqueueOnStoppedStoreFails ==
    [][\A p \in Producers :
          (pPc[p] = "enqueue" /\ stopped[pStore[p]] /\ pPc'[p] # "enqueue")
              => /\ recRes'[pRec[p]] = "err"
                 /\ queue'[pStore[p]] = queue[pStore[p]]]_vars

\* C4: whenever no ConfigureDatabase call is in progress, a store is current
\* iff the active configuration is enabled with a non-empty path, and the
\* current store was opened from exactly that configuration.
C4_ConfigMatchesStore ==
    NoCallInProgress =>
        /\ (currentUsageStore # 0)
              <=> (currentDBConfig # <<>> /\ Persisting(currentDBConfig[1]))
        /\ currentUsageStore # 0 =>
              /\ currentDBConfig # <<>>
              /\ sOpts[currentUsageStore] = currentDBConfig[1]

\* C5: a ConfigureDatabase call whose normalized options equal the active
\* configuration returns nil and changes neither pointer, no store (none
\* opened, stopped or closed), no queue and no record in flight.
C5_EqualConfigIsNoOp ==
    [][\A c \in Configurers :
          (/\ cPc[c] = "load"
           /\ cPc'[c] # "load"
           /\ currentDBConfig # <<>>
           /\ normalizeDatabaseOptions(cOpts[c]) = currentDBConfig[1])
              => /\ cPc'[c] = "idle"
                 /\ cRet'[c] = "nil"
                 /\ UNCHANGED <<ptrVars, storeVars, prodVars>>]_vars

\* C5 witness: a call spelled differently from the active configuration
\* (path "./a", retention 14 against path "a", retention unset) is about to
\* be compared with it while a record is queued on the running store.
C5_Witness ==
    \E c \in Configurers :
        /\ cPc[c] = "load"
        /\ currentDBConfig # <<>>
        /\ normalizeDatabaseOptions(cOpts[c]) = currentDBConfig[1]
        /\ cOpts[c] # currentDBConfig[1]
        /\ currentUsageStore # 0
        /\ queue[currentUsageStore] # <<>>

\* C6: a ConfigureDatabase call that fails in newUsageStore returns the error
\* and changes neither pointer, no store and no queue; the failing options are
\* not the active configuration afterwards, so the same call is not a no-op.
C6_FailedConfigureKeepsState ==
    [][\A c \in Configurers :
          (cPc[c] = "new" /\ cPc'[c] = "idle")
              => /\ cRet'[c] = "err"
                 /\ UNCHANGED <<ptrVars, storeVars, prodVars>>
                 /\ ~configsEqual(currentDBConfig', <<cNorm[c]>>)]_vars

\* C6 witness: a call failed while an earlier store stays current, running
\* and open.
C6_Witness ==
    \E c \in Configurers :
        /\ cRet[c] = "err"
        /\ cPc[c] = "idle"
        /\ currentUsageStore # 0
        /\ ~stopped[currentUsageStore]
        /\ dbOpen[currentUsageStore]
        /\ currentDBConfig = <<sOpts[currentUsageStore]>>

\* C10 as claimed: an enqueue call that finds the queue of a running store
\* full returns the error at once.
C10_FullQueueReturnsError ==
    [][\A p \in Producers :
          (/\ pPc[p] = "enqueue"
           /\ Len(queue[pStore[p]]) >= QueueCap
           /\ ~stopped[pStore[p]]
           /\ pPc'[p] # "enqueue")
              => (pPc'[p] = "idle" /\ recRes'[pRec[p]] = "err")]_vars

\* C10 amended: an enqueue call that finds the queue of a running store full
\* waits; it stays parked while the queue is full and the store runs, returns
\* nil when the insert worker's receive makes room for its record, and returns
\* the error only when the store is stopped.
C10_FullQueueBlocks ==
    [][\A p \in Producers :
          /\ (/\ pPc[p] = "enqueue"
              /\ Len(queue[pStore[p]]) >= QueueCap
              /\ ~stopped[pStore[p]]
              /\ pPc'[p] # "enqueue")
                 => (pPc'[p] = "blocked" /\ recRes'[pRec[p]] = "none")
          /\ (pPc'[p] = "blocked")
                 => (Len(queue'[pStore'[p]]) = QueueCap /\ ~stopped'[pStore'[p]])
          /\ (pPc[p] = "blocked" /\ pPc'[p] # "blocked")
                 => \/ /\ recRes'[pRec[p]] = "ok"
                       /\ ~stopped'[pStore[p]]
                       /\ queue'[pStore[p]] = Append(Tail(queue[pStore[p]]), pRec[p])
                    \/ /\ recRes'[pRec[p]] = "err"
                       /\ stopped'[pStore[p]]
                       /\ queue'[pStore[p]] = queue[pStore[p]]]_vars

\* C10 witness: a producer is parked in enqueue on a full, running store.
C10_Witness ==
    \E p \in Producers :
        /\ pPc[p] = "blocked"
        /\ Len(queue[pStore[p]]) = QueueCap
        /\ ~stopped[pStore[p]]

(* ------------------------------------------------------- claims: insert *)
RECURSIVE SumOver(_, _, _)
\* the sum of f[i] over the indices i in S
SumOver(f, S, dummy) ==
    IF S = {} THEN 0
    ELSE LET i == CHOOSE x \in S : TRUE IN f[i] + SumOver(f, S \ {i}, dummy)

RequestKey(row) == <<Day(row.timestamp), row.provider, row.credential_fingerprint, row.model>>
RecKey(rec) == <<Day(rec.Timestamp), rec.Provider, rec.CredentialFingerprint, rec.Model>>
WithKey(k) == { i \in DOMAIN okLog : RecKey(okLog[i]) = k }

\* C7: in every state the committed fact table has one row per insert that
\* returned nil, the total_requests of the aggregate rows add up to that
\* number, every aggregate row counts exactly the fact rows of its key and
\* every fact row has the aggregate row of its key, whichever of BeginTx,
\* the two statements and Commit failed in the inserts so far.
C7_WritesCommitTogether ==
    /\ Len(usage_requests) = Len(okLog)
    /\ SumOver([i \in DOMAIN usage_daily |-> usage_daily[i].total_requests],
               DOMAIN usage_daily, 0) = Len(okLog)
    /\ \A i \in DOMAIN usage_daily :
          usage_daily[i].total_requests =
              Cardinality({ j \in DOMAIN usage_requests :
                              RequestKey(usage_requests[j]) = DailyKey(usage_daily[i]) })
    /\ \A j \in DOMAIN usage_requests :
          \E i \in DOMAIN usage_daily :
              DailyKey(usage_daily[i]) = RequestKey(usage_requests[j])

\* C7 witness: of two insert calls one committed and the other returned an
\* error.
C7_Witness ==
    /\ insPc = "idle"
    /\ insRet = "err"
    /\ nIns = 2
    /\ Len(okLog) = 1
    /\ Len(usage_requests) = 1

\* C8: the aggregate table holds exactly one row for each key of an inserted
\* record and no other row; its total_requests is the number of inserted
\* records of the key, failed_requests the number of them with Failed,
\* rate_limited the number whose status is 429, total_tokens the sum of their
\* total token counts; and a record is flagged rate-limited iff its status
\* is 429.
C8_AggregateCounts ==
    /\ \A i \in DOMAIN okLog :
          okLog[i].RateLimited <=> (okLog[i].StatusCode = 429)
    /\ \A i, j \in DOMAIN usage_daily :
          DailyKey(usage_daily[i]) = DailyKey(usage_daily[j]) => i = j
    /\ \A i \in DOMAIN okLog :
          \E j \in DOMAIN usage_daily : DailyKey(usage_daily[j]) = RecKey(okLog[i])
    /\ \A j \in DOMAIN usage_daily :
          LET S == WithKey(DailyKey(usage_daily[j])) IN
          /\ S # {}
          /\ usage_daily[j].total_requests = Cardinality(S)
          /\ usage_daily[j].failed_requests = Cardinality({ i \in S : okLog[i].Failed })
          /\ usage_daily[j].rate_limited =
                Cardinality({ i \in S : okLog[i].StatusCode = 429 })
          /\ usage_daily[j].total_tokens =
                SumOver([i \in DOMAIN okLog |-> okLog[i].Tokens.TotalTokens], S, 0)

\* C8 witness: two records of one key were inserted, one of them failed with
\* status 429 and both carrying tokens.
C8_Witness ==
    \E j \in DOMAIN usage_daily :
        /\ usage_daily[j].total_requests = 2
        /\ usage_daily[j].failed_requests = 1
        /\ usage_daily[j].rate_limited = 1
        /\ usage_daily[j].total_tokens = 50

(* ----------------------------------------------------- claims: liveness *)
InsertedOnce(r) == recStore[r] # 0 /\ Count(insertLog[recStore[r]], r) = 1

\* C11 as claimed: every record whose enqueue returned nil on a running store
\* is eventually in the fact and aggregate tables (its insert returned nil).
C11_AcceptedEventuallyPersisted ==
    \A r \in RecIds : (r \in okBeforeClose) ~> (r \in persisted)

\* C11: under fair scheduling every record whose enqueue returned nil on a
\* running store is eventually passed to insert by the store's insert worker,
\* with no further enqueue and no close needed; it is in the tables when that
\* insert returns nil, and dropped when it returns an error.
C11_AcceptedEventuallyInserted ==
    \A r \in RecIds : (r \in okBeforeClose) ~> InsertedOnce(r)

\* C11 witness: a record accepted by a store that was never stopped has been
\* inserted and is in the tables.
C11_Witness ==
    \E r \in okBeforeClose :
        /\ ~stopped[recStore[r]]
        /\ Count(insertLog[recStore[r]], r) = 1
        /\ r \in persisted

(* ------------------------------------------------ claims: order, swap *)
\* the record run() holds between its receive and its insert
Held(s) == IF runRec[s] = 0 THEN <<>> ELSE <<runRec[s]>>

Running(s) ==
    /\ s # 0
    /\ dbOpen[s]
    /\ ~stopped[s]
    /\ runPc[s] \in {"select", "insert"}
    /\ retPc[s] = "loop"

\* C19: while a call replaces an enabled store by another enabled
\* configuration, the current store is never nil and always running; the old
\* store is stopped only when the new one, opened from the new options, is
\* current.
C19_SwapNeverExposesNoStore ==
    \A c \in Configurers :
        (/\ cPc[c] \in {"new", "swap", "closeStop", "closeWait", "closeDb", "enStore"}
         /\ Persisting(cNorm[c])
         /\ currentDBConfig # <<>>
         /\ Persisting(currentDBConfig[1]))
            => /\ Running(currentUsageStore)
               /\ cPc[c] \in {"closeStop", "closeWait", "closeDb"}
                     => /\ cStore[c] # currentUsageStore
                        /\ sOpts[currentUsageStore] = cNorm[c]
               /\ \A s \in StoreIds : stopped[s] => s # currentUsageStore

\* C19 witness: in the middle of a hot swap the old store is stopped and
\* draining a queued record while the new store is current.
C19_Witness ==
    \E c \in Configurers :
        /\ cPc[c] = "closeWait"
        /\ Persisting(cNorm[c])
        /\ stopped[cStore[c]]
        /\ runPc[cStore[c]] = "drainInsert"
        /\ Running(currentUsageStore)

\* C20: once close() has closed a store's stop channel, under fair scheduling
\* the insert worker finishes the insert in hand, drains and returns, the
\* retention worker makes exactly one pass for the stop signal and returns,
\* and close() gets past wg.Wait() and closes the handle.
C20_StopAndDrainTerminates ==
    \A s \in StoreIds :
        stopped[s] ~> (/\ runPc[s] = "done"
                       /\ runRec[s] = 0
                       /\ retPc[s] = "done"
                       /\ finalPasses[s] = 1
                       /\ ~dbOpen[s])

\* C20 witness: close() has returned although a producer that loaded the
\* store before the swap sent a record into it after the stop signal.
C20_Witness ==
    \E s \in StoreIds :
        /\ stopped[s]
        /\ ~dbOpen[s]
        /\ runPc[s] = "done" /\ retPc[s] = "done"
        /\ finalPasses[s] = 1
        /\ \E r \in RecIds : recStore[r] = s /\ recRes[r] = "ok" /\ r \notin okBeforeClose

(* ---------------------------------------------------- claims: retention *)
PassEnds(s) == retPc[s] \in {"daily", "finalDaily"} /\ retPc'[s] \in {"loop", "done"}
NoOldRequest(table, cutoff) == \A i \in DOMAIN table : ~(table[i].timestamp < cutoff)
NoOldDay(table, cutoff) == \A i \in DOMAIN table : ~(table[i].day < Day(cutoff))
RecentRequests(table, cutoff) ==
    SelectSeq(table, LAMBDA row : ~(row.timestamp < cutoff))
RecentDays(table, cutoff) ==
    SelectSeq(table, LAMBDA row : ~(row.day < Day(cutoff)))

\* C12 as claimed: when a retention pass ends, no fact row older than its
\* cutoff and no aggregate row of a day before the cutoff day remains.
C12_PassLeavesNoOldRow ==
    [][\A s \in StoreIds :
          PassEnds(s) => /\ NoOldRequest(usage_requests', retCutoff[s])
                         /\ NoOldDay(usage_daily', retCutoff[s])]_vars

\* C12: each DELETE statement of a retention pass leaves the rows within the
\* horizon as they were (same rows, same order, same counters) and touches
\* only its own table; a DELETE that removed anything removed every row older
\* than the cutoff (fact rows by timestamp, aggregate rows by day).
C12_DeleteRemovesOnlyOldRows ==
    [][\A s \in StoreIds :
          /\ (retPc[s] \in {"requests", "finalRequests"} /\ retPc'[s] # retPc[s])
                => /\ usage_daily' = usage_daily
                   /\ RecentRequests(usage_requests', retCutoff[s])
                         = RecentRequests(usage_requests, retCutoff[s])
                   /\ \/ usage_requests' = usage_requests
                      \/ NoOldRequest(usage_requests', retCutoff[s])
          /\ (retPc[s] \in {"daily", "finalDaily"} /\ retPc'[s] # retPc[s])
                => /\ usage_requests' = usage_requests
                   /\ RecentDays(usage_daily', retCutoff[s])
                         = RecentDays(usage_daily, retCutoff[s])
                   /\ \/ usage_daily' = usage_daily
                      \/ NoOldDay(usage_daily', retCutoff[s])]_vars

\* C12 witness: the DELETE on usage_requests has removed a committed row older
\* than the cutoff and kept one within the horizon.
C12_Witness ==
    \E s \in StoreIds :
        /\ retPc[s] \in {"daily", "finalDaily"}
        /\ usage_requests # <<>>
        /\ NoOldRequest(usage_requests, retCutoff[s])
        /\ \E i \in DOMAIN okLog : okLog[i].Timestamp < retCutoff[s]
        /\ ~NoOldDay(usage_daily, retCutoff[s])

\* C13: on a store configured with retentionDays <= 0 no step deletes a fact
\* row or an aggregate row: the fact table only grows at its end and every
\* aggregate key stays.
C13_UnsetRetentionDeletesNothing ==
    [][/\ Len(usage_requests') >= Len(usage_requests)
       /\ SubSeq(usage_requests', 1, Len(usage_requests)) = usage_requests
       /\ \A i \in DOMAIN usage_daily :
             \E j \in DOMAIN usage_daily' :
                 DailyKey(usage_daily'[j]) = DailyKey(usage_daily[i])]_vars

(* ----------------------------------------------------- claims: dispatch *)
\* C9: no HTTP request is made by a goroutine that is calling HandleUsage
\* (only the background goroutines send), and no HandleUsage caller is ever
\* waiting for the collector's answer.
C9_NoIOOnCallingThread ==
    /\ \A i \in DOMAIN oSends : oSends[i].by \notin Handlers
    /\ \A h \in Handlers : hPc[h] # "await"

(* ----------------------------------------------------- claims: exporter *)
\* C14: a record whose HandleUsage call found the exporter disabled (the call
\* began after SetEnabled(false) returned and before any SetEnabled(true)) is
\* in no HTTP request, whoever sent it, and is held by no caller and no batch.
C14_DisabledExporterSendsNothing ==
    /\ \A i \in DOMAIN oSends : oSends[i].rec \notin oRefused
    /\ \A i \in DOMAIN oBatch : oBatch[i] \notin oRefused
    /\ \A h \in Handlers : hRec[h] \notin oRefused

\* C14 witness: a record was refused while the exporter was disabled, and a
\* record dispatched after it, the exporter enabled again, was sent.
C14_Witness ==
    \E r \in oRefused :
        \E i \in DOMAIN oSends : oSends[i].rec > r

\* GetEndpoint: p.endpoint, read under the read lock.
GetEndpoint == oEndpoint

\* C15: GetEndpoint returns the trimmed argument of the last SetEndpoint, and
\* SetEndpoint(GetEndpoint()) would store the endpoint that is already there.
C15_EndpointIsTrimmedRegister ==
    /\ oLastSet # <<>> => GetEndpoint = TrimSpace(oLastSet[1])
    /\ TrimSpace(GetEndpoint) = GetEndpoint

(* ----------------------------------------------------- claims: identity *)
\* The first non-empty value among auth id, source tag, raw key, provider.
FirstIdentity(record) ==
    IF record.AuthID # "" THEN record.AuthID
    ELSE IF record.Source # "" THEN record.Source
    ELSE IF record.APIKey # "" THEN record.APIKey
    ELSE record.Provider

\* C16: the credential fingerprint persisted for a record is the hash of its
\* first non-empty identity value (auth id, source tag, raw key, provider), and
\* the empty string when every one of them is empty.
C16_FingerprintOfFirstIdentity ==
    idRows # <<>> =>
        idRows[1].request.credential_fingerprint =
            (IF FirstIdentity(idA) = "" THEN "" ELSE sha256hex(FirstIdentity(idA)))

\* the text columns of the two tables
RequestTextColumns ==
    {"provider", "model", "credential_label", "credential_fingerprint", "api_key_hash",
     "auth_id", "source"}
DailyTextColumns == {"provider", "model", "credential_label", "credential_fingerprint"}

\* No text column of the rows persisted for the record holds its raw key.
KeyNotStored(record, rows) ==
    record.APIKey # "" =>
        /\ \A col \in RequestTextColumns : rows.request[col] # record.APIKey
        /\ \A col \in DailyTextColumns : rows.daily[col] # record.APIKey

\* The rows with the given columns blanked.
Blank(row, cols) == [col \in DOMAIN row |-> IF col \in cols THEN "" ELSE row[col]]
SameBut(rowA, rowB, cols) == Blank(rowA, cols) = Blank(rowB, cols)

\* C17 as claimed: no column holds the raw key, and the rows of two records
\* that differ only in their raw key differ only in api_key_hash and
\* credential_fingerprint.
C17_KeyOnlyInHashedColumns ==
    idRows # <<>> =>
        /\ KeyNotStored(idA, idRows[1])
        /\ KeyNotStored(idB, idRows[2])
        /\ SameBut(idRows[1].request, idRows[2].request,
                   {"api_key_hash", "credential_fingerprint"})
        /\ SameBut(idRows[1].daily, idRows[2].daily, {"credential_fingerprint"})

\* C17: no column of the fact row or of the aggregate row holds the raw key;
\* api_key_hash is the hash of the key; the rows of two records that differ
\* only in their raw key differ only in api_key_hash, in credential_fingerprint
\* and in credential_label, and the labels differ only as "api-key" for
\* the record with a key against "unknown" for the one without.
C17_KeyOnlyHashedOrLabelled ==
    idRows # <<>> =>
        /\ KeyNotStored(idA, idRows[1])
        /\ KeyNotStored(idB, idRows[2])
        /\ idRows[1].request.api_key_hash =
              (IF idA.APIKey = "" THEN "" ELSE sha256hex(idA.APIKey))
        /\ SameBut(idRows[1].request, idRows[2].request,
                   {"api_key_hash", "credential_fingerprint", "credential_label"})
        /\ SameBut(idRows[1].daily, idRows[2].daily,
                   {"credential_fingerprint", "credential_label"})
        /\ idRows[1].daily.credential_label = idRows[1].request.credential_label
        /\ idRows[2].daily.credential_label = idRows[2].request.credential_label
        /\ idRows[1].request.credential_label # idRows[2].request.credential_label
              => \E r \in {1, 2} :
                    /\ idRows[r].request.credential_label = "api-key"
                    /\ idRows[3 - r].request.credential_label = "unknown"
                    /\ (IF r = 1 THEN idA ELSE idB).APIKey # ""
                    /\ (IF r = 1 THEN idB ELSE idA).APIKey = ""

\* C17 witness: two records whose first non-empty identity is their key, with
\* different keys, have been persisted.
C17_Witness ==
    /\ idRows # <<>>
    /\ idA.APIKey # "" /\ idB.APIKey # "" /\ idA.APIKey # idB.APIKey
    /\ idA.AuthID = "" /\ idA.Source = ""
    /\ idRows[1].request.credential_fingerprint # idRows[2].request.credential_fingerprint

(* ---------------------------------------------------- claims: resources *)
\* the caller is inside close() of the store it swapped out
Closing(c) == cPc[c] \in {"closeStop", "closeWait", "closeDb"}

\* C22: whatever the interleaving of ConfigureDatabase calls, close() is
\* never called on a store whose stop channel is closed already, no two
\* callers close the same store, and once no call is in progress every store
\* that is not the current one is stopped, its workers have returned and its
\* handle is closed.
C22_ReplacedStoreClosedOnce ==
    /\ \A c \in Configurers : cPc[c] = "closeStop" => ~stopped[cStore[c]]
    /\ \A c, d \in Configurers :
          (c # d /\ Closing(c) /\ Closing(d)) => cStore[c] # cStore[d]
    /\ NoCallInProgress =>
          \A s \in StoreIds :
              (Created(s) /\ s # currentUsageStore)
                  => /\ stopped[s]
                     /\ runPc[s] = "done" /\ retPc[s] = "done"
                     /\ ~dbOpen[s]

\* C22 witness: two concurrent calls are each inside close() of a store they
\* swapped out.
C22_Witness ==
    \E c, d \in Configurers :
        /\ c # d
        /\ Closing(c) /\ Closing(d)
        /\ stopped[cStore[c]] /\ stopped[cStore[d]]

\* C23: a store whose handle close() has closed has no worker left that
\* could use it: run() has returned, final drain included, with no record in
\* hand, and retentionLoop() has returned after its last pass; and a worker
\* that is about to insert or to make a retention pass finds the handle open.
C23_NoUseOfClosedHandle ==
    \A s \in StoreIds :
        /\ Released(s) => /\ runPc[s] = "done" /\ runRec[s] = 0
                          /\ retPc[s] = "done"
        /\ (runPc[s] \in {"insert", "drainInsert"} \/ retPc[s] = "loop") => dbOpen[s]

\* C23 witness: a handle is closed after the final drain inserted a record
\* that was queued when the stop signal came, and after the last retention
\* pass.
C23_Witness ==
    \E s \in StoreIds :
        /\ Released(s)
        /\ finalPasses[s] = 1
        /\ \E r \in RecIds : r \in okBeforeClose /\ Count(insertLog[s], r) = 1

\* run() of the store is at a call of insert
Inserting(s) == runPc[s] \in {"insert", "drainInsert"}

\* C24: when the insert worker of a store is at an insert, the insert worker
\* of every store opened earlier on the same path has returned: the retired
\* worker is gone before the new one writes.
C24_OneInsertWorkerPerPath ==
    \A s, t \in StoreIds :
        (/\ s < t
         /\ Created(s) /\ Created(t)
         /\ sOpts[s].Path = sOpts[t].Path
         /\ Inserting(t))
            => runPc[s] = "done"

(* ------------------------------------------------------- claims: batch *)
\* C26: p.batch is empty in every reachable state, every HTTP request was
\* made by a HandleUsage caller (none by periodicFlush, none by Close), and
\* no record was sent more than once.
C26_BatchAlwaysEmpty ==
    /\ oBatch = <<>>
    /\ \A i \in DOMAIN oSends : oSends[i].by \in Handlers
    /\ \A i, j \in DOMAIN oSends : oSends[i].rec = oSends[j].rec => i = j

\* C26 witness: Close has made its final flush and periodicFlush has
\* returned after every dispatched record was sent by its caller.
C26_Witness ==
    /\ oClosePc = "closed"
    /\ oFlushPc = "done"
    /\ Len(oSends) = MaxDispatch
    /\ \A h \in Handlers : hPc[h] = "idle"

(* ------------------------------------------- claims: aggregates and facts *)
\* the fact rows of the table that carry the key of an aggregate row
FactsOf(table, row) == { i \in DOMAIN table : RequestKey(table[i]) = DailyKey(row) }

\* now minus the store's retention: no pass so far had a later cutoff
Horizon(s) == now - sOpts[s].RetentionDays * TicksPerDay

\* C25 as claimed: when a retention pass has ended and left no row older than
\* its cutoff in either table, every aggregate row counts exactly the fact
\* rows still present with its key, the row of the cutoff day included.
C25_AggregateMatchesFacts ==
    [][\A s \in StoreIds :
          (/\ PassEnds(s)
           /\ NoOldRequest(usage_requests', retCutoff[s])
           /\ NoOldDay(usage_daily', retCutoff[s]))
              => \A j \in DOMAIN usage_daily' :
                    usage_daily'[j].total_requests =
                        Cardinality(FactsOf(usage_requests', usage_daily'[j]))]_vars

\* C25: an aggregate row of a day later than the day of now minus the
\* retention counts exactly the fact rows still present with its key.  An
\* aggregate row of that day itself is kept by every pass while the fact rows
\* of the day older than the cutoff instant are deleted: its total_requests
\* is the number of records inserted with its key, and is at least the
\* number of fact rows still present.
C25_AggregateMatchesWithinHorizon ==
    \A s \in StoreIds :
        Created(s) =>
            \A j \in DOMAIN usage_daily :
                LET row == usage_daily[j]
                    facts == Cardinality(FactsOf(usage_requests, row))
                IN  /\ row.day >= Day(Horizon(s))
                        => /\ row.total_requests = Cardinality(WithKey(DailyKey(row)))
                           /\ row.total_requests >= facts
                    /\ row.day > Day(Horizon(s)) => row.total_requests = facts

\* C25 witness: a pass has ended, the aggregate row of its cutoff day is
\* there and counts a record whose fact row the pass deleted, next to an
\* aggregate row within the horizon.
C25_Witness ==
    \E s \in StoreIds :
        /\ Created(s)
        /\ retPc[s] = "loop"
        /\ insPc = "idle"
        /\ \E j \in DOMAIN usage_daily :
              /\ usage_daily[j].day = Day(retCutoff[s])
              /\ usage_daily[j].day = Day(Horizon(s))
              /\ usage_daily[j].total_requests = 1
              /\ FactsOf(usage_requests, usage_daily[j]) = {}
        /\ \E j \in DOMAIN usage_daily :
              /\ usage_daily[j].day > Day(Horizon(s))
              /\ FactsOf(usage_requests, usage_daily[j]) # {}

(* -------------------------------------------------------- claims: lock *)
\* the goroutine holds enabledMu, for writing or for reading
Holds(g) == g \in enabledMu.writer \cup enabledMu.readers

\* C21: every goroutine that is at a statement reading or writing p.enabled
\* or p.endpoint holds enabledMu there, the read of p.endpoint in sendEvent
\* included, and so no such read is pending while a SetEndpoint call is at
\* its store.
C21_ConfigAccessUnderLock ==
    /\ \A g \in Callers : gPc[g] \in {"SetEnabled", "SetEndpoint", "RUnlock"} => Holds(g)
    /\ \A h \in Handlers : hPc[h] \in {"RUnlock", "send"} => Holds(h)
    /\ \A h \in Handlers : hPc[h] = "send" => Storing = {}

====
